---- MODULE Spec2Model ----
\* A model of the simplecdd deployment daemon (cmd/simplecdd/main.go) and of the
\* packages it drives: internal/deploy (snapshot, placement, hooks, systemd),
\* internal/inventory (package reconciliation and its persisted state) and
\* internal/delta (server-side hashing for /check).
\*
\* Three specifications share the module:
\*   SpecRate   the sliding-window rate limiter in front of the routes;
\*   SpecCheck  the /check handler as a function of the request and the disk;
\*   Spec       the /deploy and /rollback handlers under the deployment lock.
\*              Each behaviour of Spec draws its requests from one family of
\*              Workloads (files, shared paths of two projects, packages,
\*              phases with hooks and unit, request shapes).
EXTENDS Integers, Sequences, FiniteSets, TLC

\* ------------------------------------------------------------------ domains

Projects == {"alpha", "beta"}
Packages == {"curl"}
Dests    == {"/opt/app/bin", "/opt/app/cfg"}
Contents == {"v1", "v2"}
Absent   == "absent"
Handlers == {"h1", "h2"}

\* Rate limiter: two limiters are constructed in main, each with a one-minute
\* window (time is counted in seconds).
Window      == 60
CheckLimit  == 60
DeployLimit == 10
\* Model bounds for the clock of SpecRate.
TickStep == 30
MaxTicks == 2

Limiters == {"checkRL", "deployRL"}
Routes   == {"/check", "/deploy", "/rollback"}
\* Remote addresses host:port; two connections of one host and one of another.
RemoteAddrs == { [host |-> "10.0.0.1", port |-> "40001"],
                 [host |-> "10.0.0.1", port |-> "40002"],
                 [host |-> "10.0.0.2", port |-> "40001"] }
Hosts == { a.host : a \in RemoteAddrs }
\* The traffic one behaviour of SpecRate carries: the limiters share no state,
\* so each is followed on its own.
Loads == { [limiter |-> "checkRL",  addrs |-> { a \in RemoteAddrs : a.host = "10.0.0.1" }],
           [limiter |-> "deployRL", addrs |-> RemoteAddrs] }

VARIABLES
  \* --- rate limiter
  now,         \* time.Now(), seconds
  rlRequests,  \* rateLimiter.requests of each limiter: key -> timestamps
  passed,      \* history: per pool and host, the times of the requests handed to next within the last Window
  rlLast,      \* the last request the middleware answered
  load,        \* the traffic of this behaviour
  \* --- /check
  chkReq,      \* the decoded CheckRequest.Files
  chkUpload,   \* CheckResponse.Upload
  chkPc,
  \* --- host state
  fs,          \* content of each destination path, or Absent
  unitFile,    \* content of the systemd unit destination, or Absent
  snap,        \* per project: the rollback directory /var/lib/<app>/<project>/rollback
  stored,      \* per project: the packages of inventory.json
  owners,      \* package-owners.json: package -> owning projects
  installed,   \* the packages installed on the host
  \* --- the daemon
  deployMu,    \* sync.Mutex: TRUE when held
  pc,          \* per handler goroutine: where it stands
  locked,      \* per handler: it passed TryLock and has Unlock deferred
  req,         \* per handler: route, method, whether the JSON body decodes, and
               \* whether its client has gone away
  resp,        \* per handler: HTTP status written (0: none yet)
  proj,        \* per handler: manifest.Name / req.Name
  destPaths,   \* per handler: the destinations of manifest.Files, in order
  idx,         \* per handler: position of the placement loop
  log,         \* per handler: the lines streamed so far
  tmpDir,      \* per handler: the staging directory it created last: "none", "exists", "removed"
  \* --- history
  phases,      \* per handler: the phases it has run, in order
  lastD,       \* per project: what its latest snapshotting deployment saw
  wl,          \* the manifests this behaviour draws from
  \* --- the client
  cliStatus,   \* deployResp.StatusCode
  cliStream,   \* deployResp.Body: the lines the daemon sent
  cliOut,      \* the lines written to stdout
  cliErr,      \* the error Deploy returns ("" for nil)
  cliPc,
  \* --- auth.Middleware
  authToken,   \* the configured token
  authHeader,  \* r.Header.Get("Authorization")
  authStatus,  \* the status answered (0: none yet)
  authCalled,  \* next.ServeHTTP was invoked
  \* --- one systemd service and its env drop-in
  dropin,      \* the lines of <name>.service.d/eacd-env.conf, or Absent
  svcEnabled,  \* systemctl is-enabled
  svcActive,   \* systemctl is-active
  svcLast,     \* history: the latest call of reconcileService
  svcPrev,     \* history: the call before it
  svcN,        \* history: the number of calls
  \* --- the users of the host
  hostUsers,   \* /etc/passwd: name -> account, or NoUser
  usrLast,     \* history: the latest run of Reconcile's user loop, or rollback
  usrN,        \* history: the number of requests
  \* --- archive.Extract
  arcPrefix,   \* allowedPrefix
  arcFs,       \* what the extraction has created: location and kind
  arcPc,       \* "next": in the loop, "done": returned nil, "failed": returned an error
  arcLast,     \* history: the latest entry and what became of it
  arcN         \* history: the number of entries read

rlVars  == << now, rlRequests, passed, rlLast, load >>
chkVars == << chkReq, chkUpload, chkPc >>
hostVars == << fs, unitFile, snap, stored, owners, installed >>
dVars   == << deployMu, pc, locked, req, resp, proj, destPaths, idx, log, tmpDir,
              phases, lastD, wl >>
cliVars == << cliStatus, cliStream, cliOut, cliErr, cliPc >>
authVars == << authToken, authHeader, authStatus, authCalled >>
svcVars == << dropin, svcEnabled, svcActive, svcLast, svcPrev, svcN >>
usrVars == << hostUsers, usrLast, usrN >>
arcVars == << arcPrefix, arcFs, arcPc, arcLast, arcN >>
libVars == << cliVars, authVars, svcVars, usrVars, arcVars >>
vars    == << now, rlRequests, passed, rlLast, load, chkReq, chkUpload, chkPc,
              fs, unitFile, snap, stored, owners, installed,
              deployMu, pc, locked, req, resp, proj, destPaths, idx, log, tmpDir,
              phases, lastD, wl,
              cliStatus, cliStream, cliOut, cliErr, cliPc,
              authToken, authHeader, authStatus, authCalled,
              dropin, svcEnabled, svcActive, svcLast, svcPrev, svcN,
              hostUsers, usrLast, usrN,
              arcPrefix, arcFs, arcPc, arcLast, arcN >>

\* ------------------------------------------------------------ small helpers

Range(s) == { s[i] : i \in 1..Len(s) }

\* Go map read: the zero value for a missing key ("" for a string, nil for a slice).
MapGet(m, k)    == IF k \in DOMAIN m THEN m[k] ELSE ""
MapGetSeq(m, k) == IF k \in DOMAIN m THEN m[k] ELSE << >>
MapGetSet(m, k) == IF k \in DOMAIN m THEN m[k] ELSE {}
\* Go map write m[k] = v, and delete(m, k)
MapPut(m, k, v) == [x \in (DOMAIN m) \cup {k} |-> IF x = k THEN v ELSE m[x]]
MapDel(m, k)    == [x \in (DOMAIN m) \ {k} |-> m[x]]
EmptyMap        == [x \in {} |-> x]

\* ------------------------------------------------------------- rate limiter

\* newRateLimiter(60, time.Minute) and newRateLimiter(10, time.Minute)
LimitOf(l) == IF l = "checkRL" THEN CheckLimit ELSE DeployLimit

\* mux.Handle: /check goes through checkRL, /deploy and /rollback through deployRL
RouteLimiter(route) == IF route = "/check" THEN "checkRL" ELSE "deployRL"

\* net.SplitHostPort(r.RemoteAddr): the key is the host part
LimiterKey(addr) == addr.host

\* the entries of rl.requests[ip] that allow keeps: t.After(now - window)
Valid(ts, t) == SelectSeq(ts, LAMBDA x : x > t - Window)

\* the refusal test of allow, len(valid) >= rl.limit; the variant before it is
\* the off-by-one slip (>) that lets one request too many through
OverLimitOffByOne(valid, limit) == Len(valid) > limit
OverLimit(valid, limit) == Len(valid) >= limit

\* rateLimiter.allow under rl.mu: returns the new rl.requests[ip] and the verdict
allow(ts, limit, t) ==
  LET valid == Valid(ts, t) IN
    IF OverLimit(valid, limit)
      THEN [requests |-> valid, ok |-> FALSE]
      ELSE [requests |-> Append(valid, t), ok |-> TRUE]

\* The pools of the rate-limit contract: /check alone, /deploy with /rollback.
Pools == {"check", "deploy"}
PoolOf(route) == IF route = "/check" THEN "check" ELSE "deploy"
PoolLimit(pool) == IF pool = "check" THEN CheckLimit ELSE DeployLimit

\* rateLimiter.middleware for one request: 429 and return, or next.ServeHTTP
middleware(addr, route) ==
  LET l   == RouteLimiter(route)
      key == LimiterKey(addr)
      r   == allow(MapGetSeq(rlRequests[l], key), LimitOf(l), now)
  IN  /\ rlRequests' = [rlRequests EXCEPT ![l] = MapPut(rlRequests[l], key, r.requests)]
      /\ passed' = IF r.ok
                     THEN [passed EXCEPT ![PoolOf(route)][addr.host] = Append(@, now)]
                     ELSE passed
      /\ rlLast' = [route |-> route, status |-> IF r.ok THEN 200 ELSE 429,
                    forwarded |-> r.ok]

\* The history keeps what a rolling window ending now can still contain.
InWindow(ts, t) == SelectSeq(ts, LAMBDA x : x > t - Window)

InitRate ==
  /\ now = 0
  /\ rlRequests = [l \in Limiters |-> EmptyMap]
  /\ passed = [p \in Pools |-> [h \in Hosts |-> << >>]]
  /\ rlLast = [route |-> "/health", status |-> 200, forwarded |-> FALSE]
  /\ load \in Loads

\* one request reaches a rate-limited route
RateRequest ==
  \E addr \in load.addrs, route \in Routes :
    /\ RouteLimiter(route) = load.limiter
    /\ middleware(addr, route)
    /\ UNCHANGED << now, load >>

\* the clock advances
Tick ==
  /\ now < MaxTicks * TickStep
  /\ now' = now + TickStep
  /\ passed' = [p \in Pools |-> [h \in Hosts |-> InWindow(passed[p][h], now')]]
  /\ UNCHANGED << rlRequests, rlLast, load >>

\* ------------------------------------------------------------------- /check

\* What a client may send as a hash: a fingerprint, or nothing.
Digest(c) == IF c = "v1" THEN "aaaa" ELSE "bbbb"
\* delta.HashFile: "sha256:" + hex digest of the bytes
HashFile(c) == "sha256:" \o Digest(c)
ClientHashes == { HashFile(c) : c \in Contents } \cup {""}
FileHashes == [dest : Dests, hash : ClientHashes]
MaxFiles == 2
CheckRequests == UNION { [1..n -> FileHashes] : n \in 0..MaxFiles }

\* delta.HashExistingFiles: dest -> hash for the files that can be hashed
HashExistingFiles(dests, disk) ==
  [d \in { x \in Range(dests) : disk[x] # Absent } |-> HashFile(disk[d])]

\* handleCheck: dests[i] = f.Dest; clientHashes[f.Dest] = f.Hash (the last entry
\* of a destination wins)
clientHashesOf(files) ==
  [d \in { files[i].dest : i \in 1..Len(files) } |->
     files[CHOOSE i \in 1..Len(files) :
             /\ files[i].dest = d
             /\ \A j \in (i+1)..Len(files) : files[j].dest # d].hash]

\* handleCheck's comparison loop: serverHashes[dest] != clientHash
UploadSet(files, disk) ==
  LET dests        == [i \in 1..Len(files) |-> files[i].dest]
      clientHashes == clientHashesOf(files)
      serverHashes == HashExistingFiles(dests, disk)
  IN  { d \in DOMAIN clientHashes : MapGet(serverHashes, d) # clientHashes[d] }

InitCheck ==
  /\ chkReq = << >>
  /\ chkUpload = {}
  /\ chkPc = "idle"

\* the requests /check receives: any list of hashes, or in the workload
\* "delta" the one of the client's Deploy for its file
CheckInputs ==
  IF wl.name = "delta"
    THEN { << [dest |-> "/opt/app/bin", hash |-> HashFile(c)] >> : c \in Contents }
    ELSE CheckRequests

\* handleCheck for one decoded request
handleCheck ==
  /\ chkPc = "idle"
  /\ \E files \in CheckInputs :
       /\ chkReq' = files
       /\ chkUpload' = UploadSet(files, fs)
  /\ chkPc' = "done"

\* the response is written; the handler is ready for the next request
CheckReturn ==
  /\ chkPc = "done"
  /\ chkPc' = "idle"
  /\ chkReq' = << >>
  /\ chkUpload' = {}

\* ---------------------------------------------------- rollback snapshot store

\* The destinations in lexical order, as filepath.Walk visits their backups.
DestOrder == << "/opt/app/bin", "/opt/app/cfg" >>

\* BackupFiles: rel := strings.TrimPrefix(dest, "/"), the path under <base>/files
TrimSlash(dest) ==
  CASE dest = "/opt/app/bin" -> "opt/app/bin"
    [] dest = "/opt/app/cfg" -> "opt/app/cfg"

\* RestoreBackup: dest := "/" + rel
DestOfRel(rel) == "/" \o rel

\* no rollback directory
NoSnapshot == [exists |-> FALSE, files |-> EmptyMap, newFiles |-> {}]

\* BackupFiles starts with os.RemoveAll(base); the variant before it keeps the
\* previous backup in place (the clean-up forgotten)
CleanPreviousForgotten(old) == old
CleanPrevious(old) == NoSnapshot

\* the copies made for the first n destinations: only files that exist are copied
BackedUpNothing(paths, n, disk) == EmptyMap
BackedUp(paths, n, disk) ==
  [r \in { TrimSlash(paths[i]) : i \in { j \in 1..n : disk[paths[j]] # Absent } } |->
     disk[CHOOSE d \in Range(paths) : TrimSlash(d) = r]]

MapMerge(m1, m2) ==
  [x \in (DOMAIN m1) \cup (DOMAIN m2) |-> IF x \in DOMAIN m2 THEN m2[x] ELSE m1[x]]

\* a variant of BackupFiles that never records a new file in new-files.json
BackupFilesNoNewList(old, paths, disk, k) ==
  LET n == IF k = 0 \/ k > Len(paths) THEN Len(paths) ELSE k - 1
  IN  IF k = -1
        THEN [snap |-> NoSnapshot, err |-> TRUE]
        ELSE [snap |-> [exists |-> TRUE, files |-> BackedUp(paths, n, disk), newFiles |-> {}],
              err  |-> k # 0]

\* BackupFiles(project, destPaths). k says how it ends: 0 it succeeds; -1
\* MkdirAll fails; 1..Len the copy of the k-th destination fails; Len+1 the
\* write of new-files.json fails.
BackupFiles(old, paths, disk, k) ==
  LET base     == CleanPrevious(old)
      n        == IF k = 0 \/ k > Len(paths) THEN Len(paths) ELSE k - 1
      newFiles == { paths[i] : i \in { j \in 1..Len(paths) : disk[paths[j]] = Absent } }
  IN  IF k = -1
        THEN [snap |-> base, err |-> TRUE]
        ELSE [snap |-> [exists   |-> TRUE,
                        files    |-> MapMerge(base.files, BackedUp(paths, n, disk)),
                        newFiles |-> IF k = 0 THEN newFiles ELSE base.newFiles],
              err  |-> k # 0]

\* the ways BackupFiles can end on this disk
BackupOutcomes(paths, disk) ==
  {-1, 0, Len(paths) + 1} \cup { i \in 1..Len(paths) : disk[paths[i]] # Absent }

\* RollbackAvailable: the rollback directory exists
RollbackAvailable(s) == s.exists

\* the backup files in the order filepath.Walk visits them
WalkOrder(s) ==
  LET rels == [i \in 1..Len(DestOrder) |-> TrimSlash(DestOrder[i])]
  IN  SelectSeq(rels, LAMBDA r : r \in DOMAIN s.files)

\* a variant of RestoreBackup that leaves the rollback directory in place
RestoreBackupKeepsSnapshot(s, disk, k) ==
  LET order    == WalkOrder(s)
      n        == IF k = 0 THEN Len(order) ELSE k - 1
      restored == { order[i] : i \in 1..n }
      copied   == [d \in Dests |->
                     IF \E r \in restored : DestOfRel(r) = d
                       THEN s.files[CHOOSE r \in restored : DestOfRel(r) = d]
                       ELSE disk[d]]
  IN  [fs   |-> IF s.exists /\ k = 0
                  THEN [d \in Dests |-> IF d \in s.newFiles THEN Absent ELSE copied[d]]
                  ELSE copied,
       snap |-> s,
       err  |-> ~s.exists \/ k # 0]

\* a variant of RestoreBackup that deletes the rollback directory when a copy
\* has failed, too
RestoreBackupDropsOnError(s, disk, k) ==
  LET order    == WalkOrder(s)
      n        == IF k = 0 THEN Len(order) ELSE k - 1
      restored == { order[i] : i \in 1..n }
      copied   == [d \in Dests |->
                     IF \E r \in restored : DestOfRel(r) = d
                       THEN s.files[CHOOSE r \in restored : DestOfRel(r) = d]
                       ELSE disk[d]]
  IN  IF ~s.exists \/ k # 0
        THEN [fs |-> copied, snap |-> NoSnapshot, err |-> TRUE]
        ELSE [fs   |-> [d \in Dests |-> IF d \in s.newFiles THEN Absent ELSE copied[d]],
              snap |-> NoSnapshot,
              err  |-> FALSE]

\* RestoreBackup(project): without rollback directory it fails; k = 0 it
\* succeeds; k > 0 the copy of the k-th backup file fails, the new files are not
\* removed and the snapshot is kept.
RestoreBackup(s, disk, k) ==
  LET order    == WalkOrder(s)
      n        == IF k = 0 THEN Len(order) ELSE k - 1
      restored == { order[i] : i \in 1..n }
      copied   == [d \in Dests |->
                     IF \E r \in restored : DestOfRel(r) = d
                       THEN s.files[CHOOSE r \in restored : DestOfRel(r) = d]
                       ELSE disk[d]]
  IN  IF ~s.exists \/ k # 0
        THEN [fs |-> copied, snap |-> s, err |-> TRUE]
        ELSE [fs   |-> [d \in Dests |-> IF d \in s.newFiles THEN Absent ELSE copied[d]],
              snap |-> NoSnapshot,
              err  |-> FALSE]

RestoreOutcomes(s) == 0..Len(WalkOrder(s))

\* the lines RestoreBackup streams when it succeeds
RestoreLog(s) ==
  LET order == WalkOrder(s)
      news  == SelectSeq(DestOrder, LAMBDA d : d \in s.newFiles)
  IN  [i \in 1..Len(order) |-> "rollback: restoring " \o DestOfRel(order[i])]
      \o [i \in 1..Len(news) |-> "rollback: removing new file " \o news[i]]

\* ------------------------------------------------------ inventory reconciler

PkgOrder == << "curl" >>

\* a variant of diffStrings that reports every desired package as new
diffStringsAllNew(desired, st) == [toAdd |-> desired, toRemove |-> st \ desired]
\* diffStrings(desired, stored)
diffStrings(desired, st) == [toAdd |-> desired \ st, toRemove |-> st \ desired]

\* updateOwnership(gs, project, newPkgs, oldPkgs)
updateOwnership(gs, project, newPkgs, oldPkgs) ==
  LET added   == [pkg \in (DOMAIN gs) \cup newPkgs |->
                    IF pkg \in newPkgs THEN MapGetSet(gs, pkg) \cup {project}
                                       ELSE gs[pkg]]
      dropped == oldPkgs \ newPkgs
      after(pkg) == IF pkg \in dropped THEN MapGetSet(added, pkg) \ {project}
                                       ELSE added[pkg]
  IN  [pkg \in { x \in (DOMAIN added) \cup dropped : x \notin dropped \/ after(x) # {} } |->
         after(pkg)]

\* detection and load errors of Reconcile, and its later failures
LoadErrors == { "loading stored inventory", "loading global state",
                "detecting package manager" }
ReconcileErrors == LoadErrors \cup { "installing packages", "reconciling service",
                                     "ensuring user", "saving inventory state",
                                     "saving global state" }

\* the lines of Reconcile's removal loop for the packages of toRemove
RECURSIVE RemoveLog(_, _, _, _)
RemoveLog(i, toRemove, gs, rmFails) ==
  IF i > Len(PkgOrder) THEN << >>
  ELSE LET pkg == PkgOrder[i]
           here == IF pkg \notin toRemove THEN << >>
                   ELSE IF MapGetSet(gs, pkg) # {}
                     THEN << "Skipping removal of " \o pkg >>
                     ELSE << "Removing package: " \o pkg, "$ remove " \o pkg >>
                          \o (IF pkg \in rmFails
                                THEN << "WARNING: could not remove " \o pkg >> ELSE << >>)
       IN  here \o RemoveLog(i + 1, toRemove, gs, rmFails)

\* Reconcile returning on a failed installPackages: nothing is saved, gs1 (the
\* registry with the project's ownership updated) is not computed yet. The
\* variant before it updates and saves the ownership ahead of the install.
InstallFailedOwnershipFirst(st, gs, gs1, inst, instLog) ==
  [err |-> "installing packages", stored |-> st, owners |-> gs1, installed |-> inst,
   log |-> instLog]
InstallFailed(st, gs, gs1, inst, instLog) ==
  [err |-> "installing packages", stored |-> st, owners |-> gs, installed |-> inst,
   log |-> instLog]

\* a variant of the removal loop that returns the error of a failed removal
RemovalErrorFatal(rmFails) == IF rmFails # {} THEN "removing package" ELSE ""
\* the removal loop on a removePackage that fails: the warning is written and
\* the loop goes on, no error is returned
RemovalError(rmFails) == ""

\* Reconcile(project, desired, log) on the persisted state st (inventory.json of
\* the project), gs (package-owners.json) and the host's packages inst. out is
\* "" when every step succeeds, or the step that fails; rmFails are the
\* packages whose removal command exits non-zero. The services and users of
\* the inventory enter by the outcome of their loops only: each loop passes or
\* returns its error.
Reconcile(project, desired, st, gs, inst, out, rmFails) ==
  LET d        == diffStrings(desired, st)
      gs1      == updateOwnership(gs, project, desired, st)
      unowned  == { pkg \in d.toRemove : MapGetSet(gs1, pkg) = {} }
      gs2      == [pkg \in (DOMAIN gs1) \ unowned |-> gs1[pkg]]
      instEnd  == (inst \cup d.toAdd) \ (unowned \ rmFails)
      instLog  == IF d.toAdd # {} THEN << "Installing packages", "$ install" >> ELSE << >>
      allLog   == instLog \o RemoveLog(1, d.toRemove, gs1, rmFails)
  IN  CASE out \in LoadErrors ->
             [err |-> out, stored |-> st, owners |-> gs, installed |-> inst, log |-> << >>]
        [] out = "installing packages" -> InstallFailed(st, gs, gs1, inst, instLog)
        [] RemovalError(rmFails) # "" ->
             [err |-> RemovalError(rmFails), stored |-> st, owners |-> gs,
              installed |-> instEnd, log |-> allLog]
        [] out \in { "reconciling service", "ensuring user", "saving inventory state" } ->
             [err |-> out, stored |-> st, owners |-> gs, installed |-> instEnd, log |-> allLog]
        [] out = "saving global state" ->
             [err |-> out, stored |-> desired, owners |-> gs, installed |-> instEnd,
              log |-> allLog]
        [] OTHER ->
             [err |-> "", stored |-> desired, owners |-> gs2, installed |-> instEnd,
              log |-> allLog]

\* the ways Reconcile can end
ReconcileOutcomes(desired, st) ==
  { "" } \cup { e \in ReconcileErrors :
                  e = "installing packages" => diffStrings(desired, st).toAdd # {} }
RemoveFailures(project, desired, st, gs) ==
  SUBSET { pkg \in diffStrings(desired, st).toRemove :
             MapGetSet(updateOwnership(gs, project, desired, st), pkg) = {} }

\* ------------------------------------------------------- placement and hooks

\* PlaceFile(src, dest, mode, log): the destination takes the staged content
PlaceFile(disk, dest, content) == [disk EXCEPT ![dest] = content]

\* a variant of InstallUnit that goes on with the steps behind a failed one
InstallUnitKeepsGoing(old, u) ==
  [unitFile |-> IF u.fail # "place" THEN u.content ELSE old,
   err      |-> u.fail # "",
   log      |-> << "Placed unit", "systemctl daemon-reload" >>
                \o (IF u.enable THEN << "systemctl enable" >> ELSE << >>)
                \o (IF u.restart THEN << "systemctl restart" >> ELSE << >>)]

\* InstallUnit(src, unitDest, enable, restart, log). fail names the step that
\* fails ("" for none): PlaceFile, then systemctl daemon-reload, enable, restart.
InstallUnit(old, u) ==
  LET placed  == u.fail # "place"
      reload  == << "Placed unit", "systemctl daemon-reload" >>
      enable  == IF u.enable THEN << "systemctl enable" >> ELSE << >>
      restart == IF u.restart THEN << "systemctl restart" >> ELSE << >>
  IN  [unitFile |-> IF placed THEN u.content ELSE old,
       err      |-> u.fail # "",
       log      |-> CASE u.fail = "place"         -> << >>
                      [] u.fail = "daemon-reload" -> reload
                      [] u.fail = "enable"        -> reload \o enable
                      [] OTHER                    -> reload \o enable \o restart]

NoUnit == [present |-> FALSE, content |-> Absent, enable |-> FALSE, restart |-> FALSE,
           fail |-> ""]
Units ==
  { u \in [present : {TRUE}, content : {"unit-v1"}, enable : BOOLEAN, restart : BOOLEAN,
           fail : {"", "place", "daemon-reload", "enable", "restart"}] :
      /\ u.fail = "enable" => u.enable
      /\ u.fail = "restart" => u.restart }

\* A hook of the manifest: not named; named but absent from the staging tree
\* (os.Chmod fails); run and exits zero; run and exits non-zero.
HookCases == { "none", "missing", "ok", "fail" }

\* ------------------------------------------------------------------ manifests

Methods == { "POST", "GET" }

NoInventory == [present |-> FALSE, packages |-> {}]
InventoryOf(pkgs) == [present |-> TRUE, packages |-> pkgs]

AllFileLists == { << >>, << "/opt/app/bin" >>, << "/opt/app/cfg" >>,
                  << "/opt/app/bin", "/opt/app/cfg" >> }

\* The requests of one behaviour are drawn from one of these families: which
\* projects deploy, which routes and request shapes arrive, what the manifests
\* hold, and which steps the environment lets fail.
Workloads ==
  { [name |-> "files", projects |-> { "alpha" }, routes |-> { "/deploy", "/rollback" },
     methods |-> { "POST" }, bodies |-> { TRUE },
     inventories |-> { NoInventory }, fileLists |-> AllFileLists, contents |-> Contents,
     hooks |-> { "none" }, units |-> { NoUnit },
     faults |-> { "backup", "restore", "place" }],
    [name |-> "shared", projects |-> Projects, routes |-> { "/deploy", "/rollback" },
     methods |-> { "POST" }, bodies |-> { TRUE },
     inventories |-> { NoInventory, InventoryOf({}) }, fileLists |-> { << "/opt/app/cfg" >> },
     contents |-> Contents, hooks |-> { "none" }, units |-> { NoUnit },
     faults |-> { "reconcile" }],
    [name |-> "packages", projects |-> Projects, routes |-> { "/deploy" },
     methods |-> { "POST" }, bodies |-> { TRUE },
     inventories |-> { NoInventory } \cup { InventoryOf(ps) : ps \in SUBSET Packages },
     fileLists |-> { << >> }, contents |-> { "v1" },
     hooks |-> { "none" }, units |-> { NoUnit },
     faults |-> { "reconcile" }],
    [name |-> "phases", projects |-> { "alpha" }, routes |-> { "/deploy" },
     methods |-> { "POST" }, bodies |-> { TRUE },
     inventories |-> { NoInventory, InventoryOf({}) },
     fileLists |-> { << >>, << "/opt/app/bin" >> }, contents |-> { "v1" },
     hooks |-> HookCases, units |-> { NoUnit } \cup Units,
     faults |-> { "reconcile", "backup", "place" }],
    [name |-> "requests", projects |-> { "alpha" }, routes |-> { "/deploy", "/rollback" },
     methods |-> Methods, bodies |-> BOOLEAN,
     inventories |-> { NoInventory }, fileLists |-> { << >> }, contents |-> { "v1" },
     hooks |-> { "none" }, units |-> { NoUnit },
     faults |-> { "parse" }],
    [name |-> "aborts", projects |-> { "alpha" }, routes |-> { "/deploy", "/rollback" },
     methods |-> { "POST" }, bodies |-> { TRUE },
     inventories |-> { NoInventory },
     fileLists |-> { << "/opt/app/bin" >>, << "/opt/app/bin", "/opt/app/cfg" >> },
     contents |-> Contents, hooks |-> { "none" },
     units |-> { NoUnit } \cup { u \in Units : ~u.enable /\ ~u.restart },
     faults |-> { "place" }],
    [name |-> "disconnect", projects |-> { "alpha" }, routes |-> { "/deploy" },
     methods |-> { "POST" }, bodies |-> { TRUE },
     inventories |-> { NoInventory }, fileLists |-> { << "/opt/app/bin" >> },
     contents |-> { "v1" }, hooks |-> { "none", "ok" }, units |-> { NoUnit },
     faults |-> { "disconnect" }],
    [name |-> "delta", projects |-> { "alpha" }, routes |-> { "/deploy", "/rollback" },
     methods |-> { "POST" }, bodies |-> { TRUE },
     inventories |-> { NoInventory, InventoryOf(Packages) },
     fileLists |-> { << "/opt/app/bin" >> },
     contents |-> Contents, hooks |-> { "none" }, units |-> { NoUnit },
     faults |-> { } ] }

\* In the workload "delta" the requests are those of the client's Deploy: it
\* posts the hashes of its files to /check, then builds the manifest with an
\* archive path for the destinations of the answer's upload list and an empty
\* one for the others, and posts it to /deploy.
DeltaClient == wl.name = "delta"


\* ------------------------------------------------------------------ handlers

NoRequest == [route |-> "", method |-> "", body |-> TRUE, gone |-> FALSE]
ParseErrors == { "reading multipart", "expected 'manifest' part", "parsing manifest",
                 "expected 'archive' part", "creating temp dir", "extracting archive" }

Upd(f, h, v) == [f EXCEPT ![h] = v]
Say(h, lines) == [log EXCEPT ![h] = @ \o lines]
Ran(h, phase) == [phases EXCEPT ![h] = Append(@, phase)]

\* net/http serves each request on a goroutine of its own. The goroutines are
\* interchangeable, so a request is given to the first one that is idle.
HandlerOrder == << "h1", "h2" >>
Serves(h) ==
  /\ pc[h] = "idle"
  /\ \E i \in 1..Len(HandlerOrder) :
       /\ HandlerOrder[i] = h
       /\ \A j \in 1..(i - 1) : pc[HandlerOrder[j]] # "idle"

\* what the history keeps of a project's latest deployment that reached
\* BackupFiles: the declared destinations, their content at that moment,
\* whether BackupFiles succeeded, the unit file at that moment and whether the
\* deployment has written it since, whether the deployment has completed and no
\* later deployment of the project has begun (ok), how the content seen
\* compares with what the snapshotting deployment before it saw (prior), and
\* what became of the server pre-hook of its manifest (preHook, a HookCases),
\* and in the workload "delta" the client's inventory file (invFile)
NoDeployment ==
  [ok |-> FALSE, backupOk |-> FALSE, dests |-> {},
   pre |-> [d \in Dests |-> Absent], prior |-> "never", abort |-> "", dirty |-> FALSE,
   changed |-> {}, unitPre |-> Absent, unitPut |-> FALSE, unit |-> NoUnit,
   preHook |-> "none", invFile |-> NoInventory]

\* deployMu.TryLock(): succeeds when the mutex is free; the variant before it
\* is a handler that goes on without the lock
TryLockSkipped == TRUE
TryLock == ~deployMu

\* defer deployMu.Unlock(): runs on every return of a handler that locked; the
\* variant before it unlocks only at the end of the success path
UnlockAtEndOnly(h) ==
  IF locked[h] /\ \E i \in 1..Len(log[h]) :
                     log[h][i] \in { "Deployment complete", "Rollback complete" }
    THEN FALSE ELSE deployMu
deferredUnlock(h) == IF locked[h] THEN FALSE ELSE deployMu

\* the order of handleDeploy's phases; the variant before it runs the pre-hook
\* first, then the inventory and the snapshot
NextPhaseHookFirst(p) ==
  CASE p = "d_start"  -> "d_pre"
    [] p = "d_pre"    -> "d_inv"
    [] p = "d_inv"    -> "d_backup"
    [] p = "d_backup" -> "d_place"
    [] p = "d_place"  -> "d_unit"
    [] p = "d_unit"   -> "d_post"
    [] p = "d_post"   -> "d_final"
NextPhase(p) ==
  CASE p = "d_start"  -> "d_inv"
    [] p = "d_inv"    -> "d_backup"
    [] p = "d_backup" -> "d_pre"
    [] p = "d_pre"    -> "d_place"
    [] p = "d_place"  -> "d_unit"
    [] p = "d_unit"   -> "d_post"
    [] p = "d_post"   -> "d_final"

\* handleDeploy up to the lock: 405 for a wrong method, 409 when TryLock fails
handleDeployRejected(h) ==
  /\ Serves(h)
  /\ "/deploy" \in wl.routes
  /\ \E method \in wl.methods :
       /\ method = "POST" => ~TryLock
       /\ req' = Upd(req, h, [route |-> "/deploy", method |-> method, body |-> TRUE, gone |-> FALSE])
       /\ resp' = Upd(resp, h, IF method # "POST" THEN 405 ELSE 409)
  /\ pc' = Upd(pc, h, "ret")
  /\ UNCHANGED << hostVars, deployMu, locked, proj, destPaths, idx, log, tmpDir,
                  phases, lastD, wl >>

\* handleDeploy: lock taken, 200 written, then the multipart body, the temp dir
\* or the extraction fails
handleDeployParseError(h) ==
  /\ Serves(h)
  /\ "/deploy" \in wl.routes
  /\ "parse" \in wl.faults
  /\ TryLock
  /\ deployMu' = TRUE
  /\ locked' = Upd(locked, h, TRUE)
  /\ req' = Upd(req, h, [route |-> "/deploy", method |-> "POST", body |-> FALSE, gone |-> FALSE])
  /\ resp' = Upd(resp, h, 200)
  /\ \E e \in ParseErrors :
       /\ log' = Say(h, << "ERROR: " \o e >>)
       /\ tmpDir' = IF e = "extracting archive" THEN Upd(tmpDir, h, "exists") ELSE tmpDir
  /\ pc' = Upd(pc, h, "ret")
  /\ UNCHANGED << hostVars, proj, destPaths, idx, phases, lastD, wl >>

\* handleDeploy: lock taken, 200 written, manifest decoded, archive extracted
handleDeployStart(h) ==
  /\ Serves(h)
  /\ "/deploy" \in wl.routes
  /\ DeltaClient => chkPc = "done"
  /\ TryLock
  /\ deployMu' = TRUE
  /\ locked' = Upd(locked, h, TRUE)
  /\ req' = Upd(req, h, [route |-> "/deploy", method |-> "POST", body |-> TRUE, gone |-> FALSE])
  /\ resp' = Upd(resp, h, 200)
  /\ \E name \in wl.projects :
       /\ proj' = Upd(proj, h, name)
       /\ log' = Say(h, << "Starting deployment of " \o name >>)
       /\ lastD' = [lastD EXCEPT ![name].ok = FALSE, ![name].abort = "",
                                  ![name].dirty = FALSE, ![name].changed = {},
                                  ![name].invFile = NoInventory]
  /\ tmpDir' = Upd(tmpDir, h, "exists")
  /\ pc' = Upd(pc, h, NextPhase("d_start"))
  /\ UNCHANGED << hostVars, destPaths, idx, phases, wl >>

\* handleDeploy after Reconcile: an error ends the deployment; the variant
\* before it goes on after writing the error
InventoryErrorNonFatal(err) == NextPhase("d_inv")
AfterInventory(err) == IF err # "" THEN "ret" ELSE NextPhase("d_inv")

\* loadInventory(path): nil when .eacd/inventory.yaml does not exist, and nil
\* when it declares no packages, services or users; file is NoInventory for a
\* missing file, else what the file declares
loadInventory(file) ==
  IF ~file.present THEN NoInventory
  ELSE IF file.packages = {} THEN NoInventory
  ELSE file

\* the inventory files of the client's project: none, one that declares
\* nothing, one that declares packages. In the other workloads the manifests
\* are given as they arrive.
InventoryFiles ==
  IF DeltaClient THEN wl.inventories \cup { InventoryOf({}) } ELSE wl.inventories

\* Deploy: manifest.Inventory is what loadInventory returns
ManifestInventory(file) == IF DeltaClient THEN loadInventory(file) ELSE file

FileSeen(p, file) ==
  IF DeltaClient THEN [lastD EXCEPT ![p].invFile = file] ELSE lastD

\* handleDeploy: inventory reconciliation, when the manifest has an inventory
DeployInventory(h) ==
  /\ pc[h] = "d_inv"
  /\ \E file \in InventoryFiles : LET inv == ManifestInventory(file) IN
       IF ~inv.present
         THEN /\ pc' = Upd(pc, h, NextPhase("d_inv"))
              /\ lastD' = FileSeen(proj[h], file)
              /\ UNCHANGED << stored, owners, installed, log, phases >>
         ELSE \E out \in ReconcileOutcomes(inv.packages, stored[proj[h]]),
                 rmFails \in RemoveFailures(proj[h], inv.packages, stored[proj[h]], owners) :
                LET r == Reconcile(proj[h], inv.packages, stored[proj[h]], owners,
                                   installed, out, rmFails)
                IN  /\ out # "" => "reconcile" \in wl.faults
                    /\ rmFails # {} => "reconcile" \in wl.faults
                    /\ stored' = Upd(stored, proj[h], r.stored)
                    /\ owners' = r.owners
                    /\ installed' = r.installed
                    /\ log' = Say(h, << "Reconciling inventory..." >> \o r.log \o
                                     (IF r.err # ""
                                        THEN << "ERROR: inventory reconciliation: " \o r.err >>
                                        ELSE << >>))
                    /\ phases' = Ran(h, "inventory")
                    /\ pc' = Upd(pc, h, AfterInventory(r.err))
                    /\ lastD' = IF r.stored # stored[proj[h]]
                                  THEN [FileSeen(proj[h], file) EXCEPT
                                          ![proj[h]].changed = { "inventory" }]
                                  ELSE FileSeen(proj[h], file)
  /\ UNCHANGED << fs, unitFile, snap, deployMu, locked, req, resp, proj, destPaths, idx,
                  tmpDir, wl >>

\* the Dest lists of the manifests: in the workload "delta" the destinations of
\* the client's check request
ManifestFileLists ==
  IF DeltaClient THEN { [i \in 1..Len(chkReq) |-> chkReq[i].dest] } ELSE wl.fileLists

\* handleDeploy: deploy.BackupFiles of every declared destination; a failure is
\* a warning
DeployBackup(h) ==
  /\ pc[h] = "d_backup"
  /\ \E paths \in ManifestFileLists :
       \E k \in BackupOutcomes(paths, fs) :
         LET r   == BackupFiles(snap[proj[h]], paths, fs, k)
             old == lastD[proj[h]]
         IN  /\ k # 0 => "backup" \in wl.faults
             /\ snap' = Upd(snap, proj[h], r.snap)
             /\ destPaths' = Upd(destPaths, h, paths)
             /\ log' = Say(h, IF r.err THEN << "WARNING: backup failed (rollback unavailable)" >>
                                       ELSE << >>)
             /\ lastD' = Upd(lastD, proj[h],
                   [ok |-> FALSE,
                    backupOk |-> ~r.err,
                    dests |-> Range(paths),
                    pre |-> [d \in Dests |-> IF d \in Range(paths) THEN fs[d] ELSE Absent],
                    prior |-> IF old.prior = "never" THEN "none"
                                ELSE IF \E d \in Range(paths) \cap old.dests : old.pre[d] # fs[d]
                                       THEN "differs" ELSE "same",
                    abort |-> "", dirty |-> FALSE,
                    changed |-> old.changed \cup
                                (IF r.snap # snap[proj[h]] THEN { "snapshot" } ELSE {}),
                    unitPre |-> unitFile, unitPut |-> FALSE, unit |-> NoUnit,
                    preHook |-> "none", invFile |-> old.invFile])
  /\ idx' = Upd(idx, h, 1)
  /\ phases' = Ran(h, "snapshot")
  /\ pc' = Upd(pc, h, NextPhase("d_backup"))
  /\ UNCHANGED << fs, unitFile, stored, owners, installed, deployMu, locked, req, resp,
                  proj, tmpDir, wl >>

\* where handleDeploy goes after the pre-hook: RunHook's error returns, any
\* other case goes on; the variant before it goes on after a failed hook too
PreHookNonFatal(hook) == NextPhase("d_pre")
AfterPreHook(hook) == IF hook = "fail" THEN "ret" ELSE NextPhase("d_pre")

\* where handleDeploy goes after the post-hook: on, whatever RunHook returned;
\* the variant before it returns on a failed hook
PostHookFatal(hook) == IF hook = "fail" THEN "ret" ELSE NextPhase("d_post")
AfterPostHook(hook) == NextPhase("d_post")

\* the client closes the connection while its deployment runs: from then on
\* a write to the http.ResponseWriter can return an error
ClientGone(h) ==
  /\ pc[h] \notin { "idle", "ret" }
  /\ req[h].route = "/deploy"
  /\ "disconnect" \in wl.faults
  /\ ~req[h].gone
  /\ req' = Upd(req, h, [req[h] EXCEPT !.gone = TRUE])
  /\ UNCHANGED << hostVars, deployMu, pc, locked, resp, proj, destPaths, idx, log, tmpDir,
                  phases, lastD, wl >>

\* RunHook(cmd, log) for a script that exits as hook says: c.Stdout = log, so
\* c.Run copies the script's output into the flushWriter and returns the
\* error of a Write that failed, whatever the exit status
RunHook(hook, gone) == IF hook = "ok" /\ gone THEN { "ok", "fail" } ELSE { hook }

\* handleDeploy: the server pre-hook; an error of RunHook aborts the deployment
DeployPreHook(h) ==
  /\ pc[h] = "d_pre"
  /\ \E hook \in wl.hooks : \E res \in RunHook(hook, req[h].gone) :
       /\ log' = Say(h, CASE res = "ok"   -> << "Running hook: pre" >>
                          [] res = "fail" -> << "Running hook: pre", "ERROR: pre-hook" >>
                          [] OTHER        -> << >>)
       /\ phases' = IF hook \in { "ok", "fail" } THEN Ran(h, "pre-hook") ELSE phases
       /\ pc' = Upd(pc, h, AfterPreHook(res))
       /\ lastD' = [lastD EXCEPT ![proj[h]].preHook = hook]
  /\ UNCHANGED << hostVars, deployMu, locked, req, resp, proj, destPaths, idx, tmpDir, wl >>

\* what one round of the placement loop meets: "" an entry without archive
\* path, "fail" PlaceFile failing, or the staged content
\* what a PlaceFile that fails in io.Copy leaves at the destination
Torn == "torn"
\* one round of the loop: "" the entry is skipped as unchanged; a content: it is
\* placed; "fail": PlaceFile fails before it opens the destination; Torn: it
\* fails after truncating it
PlaceCases ==
  { "" } \cup wl.contents \cup (IF "place" \in wl.faults THEN { "fail", Torn } ELSE { })

\* the client's copy of the file it declares for dest: the content of its hash
ClientCopy(dest) ==
  LET i == CHOOSE k \in 1..Len(chkReq) : chkReq[k].dest = dest
  IN  CHOOSE c \in Contents : HashFile(c) = chkReq[i].hash

\* Deploy building the manifest entry of dest: entry.ArchivePath is set, and
\* the file added to the archive, if needed[f.dest]
PlaceCasesAt(dest) ==
  IF DeltaClient
    THEN { IF dest \in chkUpload THEN ClientCopy(dest) ELSE "" }
    ELSE PlaceCases

\* what the history keeps of a deployment that aborts: where, and whether a
\* declared destination no longer has its content of before
Aborted(D, where, disk) ==
  [D EXCEPT !.abort = where, !.dirty = \E d \in D.dests : disk[d] # D.pre[d]]

\* handleDeploy: one round of the placement loop
DeployPlace(h) ==
  /\ pc[h] = "d_place"
  /\ idx[h] <= Len(destPaths[h])
  /\ \E e \in PlaceCasesAt(destPaths[h][idx[h]]) :
       LET dest == destPaths[h][idx[h]]
       IN  /\ fs' = IF e \in wl.contents \cup { Torn } THEN PlaceFile(fs, dest, e) ELSE fs
           /\ log' = Say(h, CASE e = ""     -> << "Skipping " \o dest \o " (unchanged)" >>
                              [] e \in { "fail", Torn } -> << "ERROR: placing " \o dest >>
                              [] OTHER      -> << "Placed " \o dest >>)
           /\ pc' = Upd(pc, h, IF e \in { "fail", Torn } THEN "ret" ELSE "d_place")
           /\ lastD' = IF e \in { "fail", Torn }
                         THEN Upd(lastD, proj[h], Aborted(lastD[proj[h]], "place", fs'))
                         ELSE lastD
  /\ idx' = Upd(idx, h, idx[h] + 1)
  /\ phases' = Ran(h, "place")
  /\ UNCHANGED << unitFile, snap, stored, owners, installed, deployMu, locked, req, resp,
                  proj, destPaths, tmpDir, wl >>

\* handleDeploy: the placement loop has visited every entry
DeployPlaceDone(h) ==
  /\ pc[h] = "d_place"
  /\ idx[h] > Len(destPaths[h])
  /\ pc' = Upd(pc, h, NextPhase("d_place"))
  /\ UNCHANGED << hostVars, deployMu, locked, req, resp, proj, destPaths, idx, log,
                  tmpDir, phases, lastD, wl >>

\* handleDeploy: deploy.InstallUnit, when the manifest has a unit
DeployUnit(h) ==
  /\ pc[h] = "d_unit"
  /\ \E u \in wl.units :
       IF ~u.present
         THEN /\ pc' = Upd(pc, h, NextPhase("d_unit"))
              /\ UNCHANGED << unitFile, log, phases, lastD >>
         ELSE LET r == InstallUnit(unitFile, u)
              IN  /\ unitFile' = r.unitFile
                  /\ log' = Say(h, r.log \o (IF r.err THEN << "ERROR: systemd" >> ELSE << >>))
                  /\ phases' = Ran(h, "systemd")
                  /\ pc' = Upd(pc, h, IF r.err THEN "ret" ELSE NextPhase("d_unit"))
                  /\ lastD' = LET D == [lastD[proj[h]] EXCEPT
                                            !.unitPut = (r.unitFile # unitFile),
                                            !.unit = u]
                                IN  Upd(lastD, proj[h],
                                        IF r.err THEN Aborted(D, "systemd", fs) ELSE D)
  /\ UNCHANGED << fs, snap, stored, owners, installed, deployMu, locked, req, resp, proj,
                  destPaths, idx, tmpDir, wl >>

\* handleDeploy: the server post-hook; a non-zero exit is a warning
DeployPostHook(h) ==
  /\ pc[h] = "d_post"
  /\ \E hook \in wl.hooks : \E res \in RunHook(hook, req[h].gone) :
       /\ log' = Say(h, CASE res = "ok"   -> << "Running hook: post" >>
                          [] res = "fail" -> << "Running hook: post",
                                                "WARNING: post-hook failed" >>
                          [] OTHER        -> << >>)
       /\ phases' = IF hook \in { "ok", "fail" } THEN Ran(h, "post-hook") ELSE phases
       /\ pc' = Upd(pc, h, AfterPostHook(res))
  /\ UNCHANGED << hostVars, deployMu, locked, req, resp, proj, destPaths, idx, tmpDir,
                  lastD, wl >>

\* handleDeploy: the terminal line
DeployFinal(h) ==
  /\ pc[h] = "d_final"
  /\ log' = Say(h, << "Deployment complete" >>)
  /\ phases' = Ran(h, "final")
  /\ lastD' = [lastD EXCEPT ![proj[h]].ok = TRUE]
  /\ pc' = Upd(pc, h, "ret")
  /\ UNCHANGED << hostVars, deployMu, locked, req, resp, proj, destPaths, idx, tmpDir, wl >>

\* handleRollback up to the lock: 405 for a wrong method, 400 for a body that
\* does not decode or names no project, 409 when TryLock fails
handleRollbackRejected(h) ==
  /\ Serves(h)
  /\ "/rollback" \in wl.routes
  /\ \E method \in wl.methods, body \in wl.bodies :
       /\ (method = "POST" /\ body) => ~TryLock
       /\ req' = Upd(req, h, [route |-> "/rollback", method |-> method, body |-> body, gone |-> FALSE])
       /\ resp' = Upd(resp, h, IF method # "POST" THEN 405 ELSE IF ~body THEN 400 ELSE 409)
  /\ pc' = Upd(pc, h, "ret")
  /\ UNCHANGED << hostVars, deployMu, locked, proj, destPaths, idx, log, tmpDir,
                  phases, lastD, wl >>

\* handleRollback: body decoded, lock taken, 200 written
handleRollbackStart(h) ==
  /\ Serves(h)
  /\ "/rollback" \in wl.routes
  /\ TryLock
  /\ deployMu' = TRUE
  /\ locked' = Upd(locked, h, TRUE)
  /\ req' = Upd(req, h, [route |-> "/rollback", method |-> "POST", body |-> TRUE, gone |-> FALSE])
  /\ resp' = Upd(resp, h, 200)
  /\ \E name \in wl.projects : proj' = Upd(proj, h, name)
  /\ pc' = Upd(pc, h, "rb_run")
  /\ UNCHANGED << hostVars, destPaths, idx, log, tmpDir, phases, lastD, wl >>

\* a variant of RemoveAllBase that removes the project's whole state directory
RemoveAllProjectDir(inv) == {}

\* os.RemoveAll(rollbackBase(project)) at the end of RestoreBackup, seen from the
\* project's state directory /var/lib/eacd/<project>: the directory "rollback"
\* goes, inventory.json beside it, here inv, stays
RemoveAllBase(inv) == inv

\* handleRollback under the lock: RollbackAvailable, RestoreBackup, terminal line
RollbackRun(h) ==
  /\ pc[h] = "rb_run"
  /\ IF ~RollbackAvailable(snap[proj[h]])
       THEN /\ log' = Say(h, << "ERROR: no rollback snapshot available" >>)
            /\ UNCHANGED << fs, snap, stored >>
       ELSE \E k \in RestoreOutcomes(snap[proj[h]]) :
              LET r == RestoreBackup(snap[proj[h]], fs, k)
              IN  /\ k # 0 => "restore" \in wl.faults
                  /\ fs' = r.fs
                  /\ snap' = Upd(snap, proj[h], r.snap)
                  /\ stored' = IF r.err THEN stored
                                ELSE Upd(stored, proj[h], RemoveAllBase(stored[proj[h]]))
                  /\ log' = Say(h, << "Rolling back " \o proj[h] >> \o
                                   (IF r.err THEN << "ERROR: rollback failed" >>
                                             ELSE RestoreLog(snap[proj[h]])
                                                  \o << "Rollback complete" >>))
  /\ pc' = Upd(pc, h, "ret")
  /\ UNCHANGED << unitFile, owners, installed, deployMu, locked, req, resp, proj,
                  destPaths, idx, tmpDir, phases, lastD, wl >>

\* the handler has written the terminal line of a rollback / of a deployment
RollbackDone(h) ==
  /\ pc[h] = "ret" /\ req[h].route = "/rollback"
  /\ Len(log[h]) > 0 /\ log[h][Len(log[h])] = "Rollback complete"

DeployDone(h) ==
  /\ pc[h] = "ret" /\ req[h].route = "/deploy"
  /\ Len(log[h]) > 0 /\ log[h][Len(log[h])] = "Deployment complete"

\* defer os.RemoveAll(tmpDir), registered once MkdirTemp has succeeded; the
\* variant before it removes the directory at the end of a completed deployment
RemoveAllAtEndOnly(h) ==
  IF tmpDir[h] = "exists" /\ DeployDone(h) THEN "removed" ELSE tmpDir[h]
deferredRemoveAll(h) == IF tmpDir[h] = "exists" THEN "removed" ELSE tmpDir[h]

\* the handler returns: the deferred os.RemoveAll(tmpDir) and deployMu.Unlock()
\* run, the response is complete
Return(h) ==
  /\ pc[h] = "ret"
  /\ deployMu' = deferredUnlock(h)
  /\ locked' = Upd(locked, h, FALSE)
  /\ tmpDir' = Upd(tmpDir, h, deferredRemoveAll(h))
  /\ pc' = Upd(pc, h, "idle")
  /\ req' = Upd(req, h, NoRequest)
  /\ resp' = Upd(resp, h, 0)
  /\ proj' = Upd(proj, h, "")
  /\ destPaths' = Upd(destPaths, h, << >>)
  /\ idx' = Upd(idx, h, 0)
  /\ log' = Upd(log, h, << >>)
  /\ phases' = Upd(phases, h, << >>)
  /\ lastD' = IF RollbackDone(h) THEN Upd(lastD, proj[h], NoDeployment) ELSE lastD
  /\ UNCHANGED << hostVars, wl >>

InitHost ==
  /\ fs = [d \in Dests |-> Absent]
  /\ unitFile = Absent
  /\ snap = [p \in Projects |-> NoSnapshot]
  /\ stored = [p \in Projects |-> {}]
  /\ owners = EmptyMap
  /\ installed = {}

InitDaemon ==
  /\ deployMu = FALSE
  /\ pc = [h \in Handlers |-> "idle"]
  /\ locked = [h \in Handlers |-> FALSE]
  /\ req = [h \in Handlers |-> NoRequest]
  /\ resp = [h \in Handlers |-> 0]
  /\ proj = [h \in Handlers |-> ""]
  /\ destPaths = [h \in Handlers |-> << >>]
  /\ idx = [h \in Handlers |-> 0]
  /\ log = [h \in Handlers |-> << >>]
  /\ tmpDir = [h \in Handlers |-> "none"]
  /\ phases = [h \in Handlers |-> << >>]
  /\ lastD = [p \in Projects |-> NoDeployment]

\* ------------------------------------------------------------ specifications

FilesWorkload == CHOOSE w \in Workloads : w.name = "files"

\* ------------------------------------------------------------------ client
\* The lines a response body can hold. TooLong stands for a line longer than
\* the scanner's buffer (bufio.MaxScanTokenSize): Scan returns false on it
\* and everything after it stays unread.
\* The sentinel the client waits for is "[eacd] STATUS:OK". The daemon's lines
\* in log are modelled without their "[simplecd] " prefix, the client's in full.
Sentinel == "STATUS:OK"
ClientSentinel == "[eacd] " \o Sentinel
TooLong == "<line over 64 KiB>"
StreamItems == { ClientSentinel, "[eacd] Deployment complete", "", TooLong }
MaxLines == 3

RECURSIVE SeqsUpTo(_, _)
SeqsUpTo(S, n) ==
  IF n = 0 THEN { << >> }
  ELSE LET shorter == SeqsUpTo(S, n - 1)
       IN  shorter \cup { Append(q, x) : q \in { r \in shorter : Len(r) = n - 1 }, x \in S }

\* the lines scanner.Scan() hands out before it returns false
RECURSIVE Scanned(_)
Scanned(body) ==
  IF body = << >> \/ Head(body) = TooLong THEN << >>
  ELSE << Head(body) >> \o Scanned(Tail(body))

\* the loop of streamAndCheck over the scanned lines: prev and the lines printed
RECURSIVE scanLoop(_, _, _)
scanLoop(lines, prev, out) ==
  IF lines = << >> THEN [prev |-> prev, out |-> out]
  ELSE scanLoop(Tail(lines), Head(lines), IF prev # "" THEN Append(out, prev) ELSE out)

streamAndCheck(body, errMsg) ==
  LET end == scanLoop(Scanned(body), "", << >>)
  IN  IF end.prev = ClientSentinel THEN [err |-> "", out |-> end.out]
      ELSE [err |-> errMsg,
            out |-> IF end.prev # "" THEN Append(end.out, end.prev) ELSE end.out]

InitClientIdle ==
  /\ cliStatus = 0
  /\ cliStream = << >>
  /\ cliOut = << >>
  /\ cliErr = ""
  /\ cliPc = "idle"

InitClient ==
  /\ cliStatus \in { 200, 500 }
  /\ cliStream \in SeqsUpTo(StreamItems, MaxLines)
  /\ cliOut = << >>
  /\ cliErr = ""
  /\ cliPc = "posted"

\* the end of Deploy: the status check, then the stream reader
ClientDeploy ==
  /\ cliPc = "posted"
  /\ cliPc' = "done"
  /\ IF cliStatus # 200
       THEN /\ cliErr' = "deployment failed (status)"
            /\ cliOut' = << >>
       ELSE LET r == streamAndCheck(cliStream, "deployment failed (see output above)")
            IN  /\ cliErr' = r.err
                /\ cliOut' = r.out
  /\ UNCHANGED << cliStatus, cliStream >>

\* ------------------------------------------------------------ auth.Middleware
\* A header value or a token is a sequence of atoms: words without a space, and
\* the space. No atom is a prefix of another, before or after case folding, so
\* two sequences are equal exactly when the strings they spell are.
Space == " "
Words == { "Bearer", "bearer", "BEARER", "Basic", "s3cret", "wrong" }
Atoms == Words \cup { Space }
MaxAtoms == 3
Tokens == { << "s3cret" >>, << "s3cret", Space, "wrong" >> }

\* a word with its letters folded to lower case
Fold(w) == IF w \in { "Bearer", "BEARER" } THEN "bearer"
           ELSE IF w = "Basic" THEN "basic" ELSE w

EqualFoldExact(a, b) == a = b
\* strings.EqualFold
EqualFold(a, b) ==
  /\ Len(a) = Len(b)
  /\ \A i \in 1..Len(a) : Fold(a[i]) = Fold(b[i])

\* strings.SplitN(auth, " ", 2)
SplitN2(auth) ==
  IF \E i \in 1..Len(auth) : auth[i] = Space
    THEN LET i == CHOOSE j \in 1..Len(auth) :
                    auth[j] = Space /\ \A k \in 1..(j - 1) : auth[k] # Space
         IN  << SubSeq(auth, 1, i - 1), SubSeq(auth, i + 1, Len(auth)) >>
    ELSE << auth >>

\* subtle.ConstantTimeCompare(x, y) == 1
ConstantTimeCompare(x, y) == x = y

\* Middleware(token, next) serving a request whose Authorization header is
\* auth: the status it answers itself (0 when it hands over) and whether next
\* was invoked
Middleware(token, auth) ==
  LET parts == SplitN2(auth)
  IN  IF Len(parts) # 2 \/ ~EqualFold(parts[1], << "Bearer" >>)
        THEN [status |-> 401, called |-> FALSE]
      ELSE IF ~ConstantTimeCompare(parts[2], token)
        THEN [status |-> 401, called |-> FALSE]
      ELSE [status |-> 0, called |-> TRUE]

InitAuthIdle ==
  /\ authToken = << "s3cret" >>
  /\ authHeader = << >>
  /\ authStatus = 0
  /\ authCalled = FALSE

InitAuth ==
  /\ authToken \in Tokens
  /\ authHeader \in SeqsUpTo(Atoms, MaxAtoms) \cup { << w, Space >> \o t : w \in Words, t \in Tokens }
  /\ authStatus = 0
  /\ authCalled = FALSE

AuthServe ==
  /\ authStatus = 0 /\ ~authCalled
  /\ LET r == Middleware(authToken, authHeader)
     IN  /\ authStatus' = r.status
         /\ authCalled' = r.called
  /\ UNCHANGED << authToken, authHeader >>

\* ------------------------------------------------------- inventory services
\* svc.Env of the manifests drawn: no env, one key, the same key with another
\* value, and two keys of which one value holds double quotes
EnvKeys == << "LOG", "PORT" >>
Envs == { EmptyMap,
          [k \in {"PORT"} |-> "8080"],
          [k \in {"PORT"} |-> "9090"],
          [k \in {"LOG", "PORT"} |-> IF k = "LOG" THEN "say \"hi\"" ELSE "8080"] }
MaxCalls == 3

\* strings.ReplaceAll(v, `"`, `\"`) on the values drawn
EscapeQuotes(v) == IF v = "say \"hi\"" THEN "say \\\"hi\\\"" ELSE v

\* the Environment= lines for the keys from position i on, in sorted order
RECURSIVE EnvLines(_, _)
EnvLines(env, i) ==
  IF i > Len(EnvKeys) THEN ""
  ELSE (IF EnvKeys[i] \in DOMAIN env
          THEN "Environment=\"" \o EnvKeys[i] \o "=" \o EscapeQuotes(env[EnvKeys[i]]) \o "\"\n"
          ELSE "")
       \o EnvLines(env, i + 1)

\* the drop-in content built from svc.Env
DropinContent(env) == "[Service]\n" \o EnvLines(env, 1)

\* what a failed os.WriteFile can leave behind
TornFile == "[Service]\n"
\* a drop-in that was not written by reconcileServiceEnv
ForeignFile == "[Service]\nEnvironment=\"PORT=1\"\nEnvironment=\"LOG=on\"\n"

\* the commands and file operations of one call that can fail; "missing": the
\* unit is not known to systemd, so that is-enabled and is-active exit non-zero
\* and enable, start and restart fail
SvcFaults == { "none", "remove", "mkdir", "write", "daemon-reload", "is-enabled",
               "enable", "disable", "start", "restart", "stop", "missing" }

SameContentNever(existing, content) == FALSE
\* os.ReadFile succeeded and string(existing) == content
SameContent(existing, content) == existing # Absent /\ existing = content

\* reconcileServiceEnv(svc, log) with the drop-in file as it is on disk; fault
\* is the step that fails. wrote and removed record what was done to the file.
reconcileServiceEnv(env, file, fault) ==
  LET done(ch, e, f, w, r, c) ==
        [changed |-> ch, err |-> e, file |-> f, wrote |-> w, removed |-> r, cmds |-> c]
      content == DropinContent(env)
  IN  IF DOMAIN env = {}
        THEN IF file # Absent
               THEN IF fault = "remove"
                      THEN done(FALSE, "removing drop-in", file, FALSE, FALSE, << >>)
                    ELSE IF fault = "daemon-reload"
                      THEN done(FALSE, "daemon-reload", Absent, FALSE, TRUE, << "daemon-reload" >>)
                    ELSE done(TRUE, "", Absent, FALSE, TRUE, << "daemon-reload" >>)
               ELSE done(FALSE, "", file, FALSE, FALSE, << >>)
      ELSE IF SameContent(file, content)
        THEN done(FALSE, "", file, FALSE, FALSE, << >>)
      ELSE IF fault = "mkdir"
        THEN done(FALSE, "creating drop-in dir", file, FALSE, FALSE, << >>)
      ELSE IF fault = "write"
        THEN done(FALSE, "writing drop-in", TornFile, TRUE, FALSE, << >>)
      ELSE IF fault = "daemon-reload"
        THEN done(FALSE, "daemon-reload", content, TRUE, FALSE, << "daemon-reload" >>)
      ELSE done(TRUE, "", content, TRUE, FALSE, << "daemon-reload" >>)

\* case "started", the service running: if envChanged
RestartOnEnvChange(envChanged) == envChanged

\* a variant of the order of reconcileService that handles the drop-in last
StepOrderEnvLast(envCmds, rest) == rest \o envCmds
\* the order of reconcileService's steps: reconcileServiceEnv is called first,
\* the enable/disable and the state switch follow
StepOrder(envCmds, rest) == envCmds \o rest

\* reconcileService(svc, log): the drop-in first, then enable/disable, then the
\* state switch. The result holds the new file and systemd state, the error
\* returned ("" for nil) and the systemctl commands issued.
reconcileService(svc, file, enabled, active, fault) ==
  LET e == reconcileServiceEnv(svc.env, file, fault)
      out(err, en, ac, cmds, warned) ==
        [err |-> err, file |-> e.file, enabled |-> en, active |-> ac,
         envErr |-> e.err, changed |-> e.changed, wrote |-> e.wrote,
         removed |-> e.removed, cmds |-> StepOrder(e.cmds, cmds), warned |-> warned,
         missing |-> fault = "missing"]
      toggle == IF svc.enabled /\ ~enabled THEN "enable"
                ELSE IF ~svc.enabled /\ enabled THEN "disable" ELSE ""
      en1 == IF toggle = "" THEN enabled ELSE svc.enabled
      tcmd == IF toggle = "" THEN << >> ELSE << toggle >>
      switch == IF svc.state = "started"
                  THEN IF ~active THEN "start"
                       ELSE IF RestartOnEnvChange(e.changed) THEN "restart" ELSE ""
                ELSE IF svc.state = "stopped" /\ active THEN "stop" ELSE ""
  IN  IF e.err # "" THEN out("reconciling env: " \o e.err, enabled, active, << >>, FALSE)
      ELSE IF fault = "is-enabled" THEN out("", enabled, active, << >>, TRUE)
      ELSE IF toggle # "" /\ fault \in { toggle, "missing" }
        THEN out(toggle, enabled, active, tcmd, FALSE)
      ELSE IF switch = "" THEN out("", en1, active, tcmd, FALSE)
      ELSE IF fault \in { switch, "missing" }
        THEN out(switch, en1, active, tcmd \o << switch >>, FALSE)
      ELSE out("", en1, switch # "stop", tcmd \o << switch >>, FALSE)

Services == [env : Envs, enabled : BOOLEAN, state : { "started", "stopped" }]

\* Reconcile's loop over desired.Services: each service in the order of the
\* list, the first error ends the loop. svcs[i] is [name, svc], host and fault
\* give each name its drop-in, enabled and active state and the step that fails.
RECURSIVE reconcileServices(_, _, _, _, _)
reconcileServices(svcs, i, host, fault, cmds) ==
  IF i > Len(svcs) THEN [host |-> host, err |-> "", cmds |-> cmds]
  ELSE LET n == svcs[i].name
           r == reconcileService(svcs[i].svc, host[n].file, host[n].enabled,
                                 host[n].active, fault[n])
           h1 == [host EXCEPT ![n] = [file |-> r.file, enabled |-> r.enabled,
                                      active |-> r.active]]
           c1 == cmds \o [k \in 1..Len(r.cmds) |-> << n, r.cmds[k] >>]
       IN  IF r.err # "" THEN [host |-> h1, err |-> "reconciling service", cmds |-> c1]
           ELSE reconcileServices(svcs, i + 1, h1, fault, c1)

\* what the history keeps of a call
CallRecord(svc, file, active, r) ==
  [env |-> svc.env, enabled |-> svc.enabled, state |-> svc.state,
   same |-> IF DOMAIN svc.env = {} THEN file = Absent ELSE file = DropinContent(svc.env),
   wasActive |-> active, err |-> r.err, envErr |-> r.envErr, changed |-> r.changed,
   wrote |-> r.wrote,
   removed |-> r.removed, cmds |-> Range(r.cmds), warned |-> r.warned,
   missing |-> r.missing, seq |-> r.cmds, stale |-> FALSE]

NoCall == [env |-> EmptyMap, enabled |-> FALSE, state |-> "stopped", same |-> TRUE,
           wasActive |-> FALSE, err |-> "", envErr |-> "", changed |-> FALSE,
           wrote |-> FALSE,
           removed |-> FALSE, cmds |-> {}, warned |-> FALSE, missing |-> FALSE,
           seq |-> << >>, stale |-> FALSE]

\* whether the service runs and the drop-in has been written or removed since
\* it was last started or restarted, after a call with result r: the drop-in
\* is handled first, a start or restart that succeeded comes after it
StaleAfter(before, r) ==
  IF ~r.active \/ (r.err = "" /\ Range(r.cmds) \cap { "start", "restart" } # {})
    THEN FALSE
    ELSE before \/ r.wrote \/ r.removed

InitSvcIdle ==
  /\ dropin = Absent
  /\ svcEnabled = FALSE
  /\ svcActive = FALSE
  /\ svcLast = NoCall
  /\ svcPrev = NoCall
  /\ svcN = 0

InitSvc ==
  /\ dropin \in { Absent, ForeignFile }
  /\ svcEnabled \in BOOLEAN
  /\ svcActive \in BOOLEAN
  /\ svcLast = NoCall
  /\ svcPrev = NoCall
  /\ svcN = 0

\* one deployment's Reconcile reaching the service of its inventory. The
\* deployments of a behaviour keep the service's enabled and state settings and
\* vary its env.
ServiceReconcile ==
  /\ svcN < MaxCalls
  /\ \E svc \in Services, fault \in SvcFaults :
       /\ svcN > 0 => (svc.enabled = svcLast.enabled /\ svc.state = svcLast.state)
       /\ fault = "missing" => (~svcEnabled /\ ~svcActive)
       /\ LET r == reconcileService(svc, dropin, svcEnabled, svcActive, fault)
          IN  /\ dropin' = r.file
              /\ svcEnabled' = r.enabled
              /\ svcActive' = r.active
              /\ svcPrev' = [svcLast EXCEPT !.stale = FALSE]
              /\ svcLast' = [CallRecord(svc, dropin, svcActive, r) EXCEPT
                                !.stale = StaleAfter(svcLast.stale, r)]
              /\ svcN' = svcN + 1

\* between two deployments the service dies or is started by hand
ServiceDrift ==
  /\ svcN \in 1..(MaxCalls - 1)
  /\ svcActive' = ~svcActive
  /\ svcLast' = [svcLast EXCEPT !.stale = FALSE]
  /\ UNCHANGED << dropin, svcEnabled, svcPrev, svcN >>

\* ---------------------------------------------------------------------------
\* users (internal/inventory/users.go)

UserNames == { "app", "web" }
\* the name has no entry
NoUser == [home |-> "-", shell |-> "-"]
NoLogin == "/usr/sbin/nologin"

\* api.InventoryUser: Name, Home and Shell ("" when the inventory omits them)
InventoryUsers ==
  [ Name : UserNames, Home : { "" }, Shell : { "", "/bin/bash" } ]

\* the accounts of a host: an account keeps the home and shell it was made with
Accounts == { [home |-> "", shell |-> NoLogin], [home |-> "/home/x", shell |-> "/bin/bash"] }

MaxUsers == 2
MaxRequests == 2

\* the desired.Users of a request
UserLists == SeqsUpTo(InventoryUsers, MaxUsers)

\* user.Lookup(name) returns no error
Lookup(host, name) == host[name] # NoUser

\* useradd --system ...: it refuses a name that exists, and it can fail
useradd(host, u, fault) ==
  IF Lookup(host, u.Name) \/ fault
    THEN [host |-> host, err |-> TRUE]
    ELSE [host |-> [host EXCEPT ![u.Name] =
                      [home  |-> u.Home,
                       shell |-> IF u.Shell # "" THEN u.Shell ELSE NoLogin]],
          err  |-> FALSE]

\* a variant of ensureUser that runs useradd without looking the user up
ensureUserNoLookup(host, u, fault) ==
  LET r == useradd(host, u, fault)
  IN  [host |-> r.host, err |-> r.err, cmds |-> << u.Name >>,
       log |-> << "Creating user: " \o u.Name >>]

\* ensureUser(u, log)
ensureUser(host, u, fault) ==
  IF Lookup(host, u.Name)
    THEN [host |-> host, err |-> FALSE, cmds |-> << >>,
          log |-> << "User " \o u.Name \o " already exists, skipping" >>]
    ELSE LET r == useradd(host, u, fault)
         IN  [host |-> r.host, err |-> r.err, cmds |-> << u.Name >>,
              log |-> << "Creating user: " \o u.Name >>]

\* Reconcile's loop over desired.Users: the first error ends it. fault: the
\* useradd command fails.
RECURSIVE ensureUsers(_, _, _, _, _, _)
ensureUsers(host, users, i, fault, cmds, lg) ==
  IF i > Len(users)
    THEN [host |-> host, err |-> "", cmds |-> cmds, log |-> lg]
    ELSE LET r == ensureUser(host, users[i], fault)
         IN  IF r.err
               THEN [host |-> r.host, err |-> "ensuring user",
                     cmds |-> cmds \o r.cmds, log |-> lg \o r.log]
               ELSE ensureUsers(r.host, users, i + 1, fault,
                                cmds \o r.cmds, lg \o r.log)

NoUserCall == [kind |-> "none", before |-> [n \in UserNames |-> NoUser],
               users |-> << >>, cmds |-> << >>, log |-> << >>, err |-> ""]

InitUsersIdle ==
  /\ hostUsers = [n \in UserNames |-> NoUser]
  /\ usrLast = NoUserCall
  /\ usrN = 0

InitUsers ==
  /\ hostUsers \in [UserNames -> { NoUser } \cup Accounts]
  /\ usrLast = NoUserCall
  /\ usrN = 0

\* one deployment's Reconcile reaching the users of its inventory
UsersReconcile ==
  /\ usrN < MaxRequests
  /\ \E users \in UserLists, fault \in BOOLEAN :
       /\ LET r == ensureUsers(hostUsers, users, 1, fault, << >>, << >>)
          IN  /\ hostUsers' = r.host
              /\ usrLast' = [kind |-> "deploy", before |-> hostUsers, users |-> users,
                             cmds |-> r.cmds, log |-> r.log, err |-> r.err]
  /\ usrN' = usrN + 1

\* a rollback: RestoreBackup copies files back and runs no command
UsersRollback ==
  /\ usrN < MaxRequests
  /\ hostUsers' = hostUsers
  /\ usrLast' = [NoUserCall EXCEPT !.kind = "rollback", !.before = hostUsers]
  /\ usrN' = usrN + 1

\* ---------------------------------------------------------------------------
\* archive.Extract (internal/archive)

\* a string is a sequence of characters, a path a sequence of components
Chars == { "/", ".", "a" }
Slash == << "/" >>
Dot == << "." >>
DotDot == << ".", "." >>
MaxNameLen == 4
MaxEntries == 1

\* the hdr.Name of an entry
EntryNames == SeqsUpTo(Chars, MaxNameLen)
Typeflags == { "dir", "reg", "other" }

\* the extraction root: os.MkdirTemp("", ...), here /aa
DestDir == << << "a", "a" >> >>

\* strings.HasPrefix
HasPrefix(str, prefix) ==
  /\ Len(prefix) <= Len(str)
  /\ SubSeq(str, 1, Len(prefix)) = prefix

\* the components of a string between its separators, empty ones included
RECURSIVE Split(_, _, _)
Split(str, i, cur) ==
  IF i > Len(str) THEN << cur >>
  ELSE IF str[i] = "/" THEN << cur >> \o Split(str, i + 1, << >>)
  ELSE Split(str, i + 1, Append(cur, str[i]))

\* a variant of Clean that drops empty and "." components and keeps ".."
RECURSIVE CleanKeepDotDot(_, _, _)
CleanKeepDotDot(comps, i, out) ==
  IF i > Len(comps) THEN out
  ELSE IF comps[i] = << >> \/ comps[i] = Dot THEN CleanKeepDotDot(comps, i + 1, out)
  ELSE CleanKeepDotDot(comps, i + 1, Append(out, comps[i]))

\* filepath.Clean of a rooted path, given as its components: empty and "."
\* components are dropped, ".." removes the component before it and is dropped
\* at the root
RECURSIVE Clean(_, _, _)
Clean(comps, i, out) ==
  IF i > Len(comps) THEN out
  ELSE IF comps[i] = << >> \/ comps[i] = Dot THEN Clean(comps, i + 1, out)
  ELSE IF comps[i] = DotDot
    THEN Clean(comps, i + 1, IF out = << >> THEN out ELSE SubSeq(out, 1, Len(out) - 1))
  ELSE Clean(comps, i + 1, Append(out, comps[i]))

\* filepath.Join(destDir, p): the cleaned concatenation
Join(dir, p) == Clean(dir \o p, 1, << >>)

\* a rooted path as a string
RECURSIVE PathString(_, _)
PathString(comps, i) ==
  IF comps = << >> THEN Slash
  ELSE IF i > Len(comps) THEN << >>
  ELSE Slash \o comps[i] \o PathString(comps, i + 1)

\* target := filepath.Join(destDir, filepath.Clean("/"+hdr.Name))
Target(name) == Join(DestDir, Clean(Split(Slash \o name, 1, << >>), 1, << >>))

\* the safety check on the resolved path
WithinDestDir(target) ==
  \/ HasPrefix(PathString(target, 1), PathString(Clean(DestDir, 1, << >>), 1) \o Slash)
  \/ target = Clean(DestDir, 1, << >>)

\* where the kernel finds a path: ".." is the parent of what precedes it
RECURSIVE Resolve(_, _, _)
Resolve(comps, i, out) ==
  IF i > Len(comps) THEN out
  ELSE IF comps[i] = DotDot
    THEN Resolve(comps, i + 1, IF out = << >> THEN out ELSE SubSeq(out, 1, Len(out) - 1))
  ELSE Resolve(comps, i + 1, Append(out, comps[i]))

\* the directories that exist before the extraction: the root and its parents
IsAncestorOrRoot(loc) == Len(loc) <= Len(DestDir) /\ SubSeq(DestDir, 1, Len(loc)) = loc

KindAt(files, loc) ==
  IF IsAncestorOrRoot(loc) THEN "dir"
  ELSE IF \E e \in files : e.loc = loc THEN (CHOOSE e \in files : e.loc = loc).kind
  ELSE Absent

\* os.MkdirAll(path): creates the missing directories along path, fails at a
\* component that is a file
RECURSIVE MkdirAll(_, _, _)
MkdirAll(files, path, i) ==
  IF i > Len(path) THEN [files |-> files, err |-> FALSE]
  ELSE LET loc == Resolve(SubSeq(path, 1, i), 1, << >>)
           k   == KindAt(files, loc)
       IN  IF k = "file" THEN [files |-> files, err |-> TRUE]
           ELSE IF k = "dir" THEN MkdirAll(files, path, i + 1)
           ELSE MkdirAll(files \cup { [loc |-> loc, kind |-> "dir"] }, path, i + 1)

\* filepath.Dir of a cleaned path
Dir(path) == IF path = << >> THEN path ELSE SubSeq(path, 1, Len(path) - 1)

\* os.OpenFile(target, O_WRONLY|O_CREATE|O_TRUNC) and io.Copy
WriteFile(files, target) ==
  LET loc == Resolve(target, 1, << >>)
  IN  IF KindAt(files, loc) = "dir" THEN [files |-> files, err |-> TRUE]
      ELSE [files |-> { e \in files : e.loc # loc } \cup { [loc |-> loc, kind |-> "file"] },
            err |-> FALSE]

\* one iteration of Extract's loop for the header hdr
ExtractOne(files, hdr, allowedPrefix) ==
  LET target == Target(hdr.Name)
  IN  IF ~HasPrefix(hdr.Name, allowedPrefix) \/ ~WithinDestDir(target)
        THEN [files |-> files, err |-> FALSE, skipped |-> TRUE]
      ELSE IF hdr.Typeflag = "dir"
        THEN MkdirAll(files, target, 1) @@ [skipped |-> FALSE]
      ELSE IF hdr.Typeflag = "reg"
        THEN LET m == MkdirAll(files, Dir(target), 1)
             IN  IF m.err THEN m @@ [skipped |-> FALSE]
                 ELSE WriteFile(m.files, target) @@ [skipped |-> FALSE]
      ELSE [files |-> files, err |-> FALSE, skipped |-> FALSE]

HasDotDot(name) == \E i \in 1..Len(Split(name, 1, << >>)) : Split(name, 1, << >>)[i] = DotDot

NoEntry == [dotdot |-> FALSE, abs |-> FALSE, type |-> "none", skipped |-> FALSE,
            wrote |-> FALSE]

InitArchiveIdle ==
  /\ arcPrefix = << >>
  /\ arcFs = {}
  /\ arcPc = "done"
  /\ arcLast = NoEntry
  /\ arcN = 0

\* Extract is called with allowedPrefix "" by the daemon and with a name by
\* the package's test
InitArchive ==
  /\ arcPrefix \in { << >>, << "a" >> }
  /\ arcFs = {}
  /\ arcPc = "next"
  /\ arcLast = NoEntry
  /\ arcN = 0

\* tr.Next() returns a header
ExtractEntry ==
  /\ arcPc = "next"
  /\ arcN < MaxEntries
  /\ \E name \in EntryNames, type \in Typeflags :
       LET r == ExtractOne(arcFs, [Name |-> name, Typeflag |-> type], arcPrefix)
       IN  /\ arcFs' = r.files
           /\ arcPc' = IF r.err THEN "failed" ELSE "next"
           /\ arcLast' = [dotdot |-> HasDotDot(name), abs |-> HasPrefix(name, Slash),
                          type |-> type, skipped |-> r.skipped,
                          wrote |-> r.files # arcFs]
  /\ arcN' = arcN + 1
  /\ UNCHANGED arcPrefix

\* tr.Next() returns io.EOF
ExtractEOF ==
  /\ arcPc = "next"
  /\ arcPc' = "done"
  /\ UNCHANGED << arcPrefix, arcFs, arcLast, arcN >>

InitLibIdle ==
  InitClientIdle /\ InitAuthIdle /\ InitSvcIdle /\ InitUsersIdle /\ InitArchiveIdle

NextRate ==
  \/ RateRequest /\ UNCHANGED << chkVars, hostVars, dVars, libVars >>
  \/ Tick /\ UNCHANGED << chkVars, hostVars, dVars, libVars >>

InitSpecRate ==
  InitRate /\ InitCheck /\ InitHost /\ InitDaemon /\ wl = FilesWorkload /\ InitLibIdle

SpecRate == InitSpecRate /\ [][NextRate]_vars

InitRateIdle ==
  /\ now = 0
  /\ rlRequests = [l \in Limiters |-> EmptyMap]
  /\ passed = [p \in Pools |-> [h \in Hosts |-> << >>]]
  /\ rlLast = [route |-> "/health", status |-> 200, forwarded |-> FALSE]
  /\ load = CHOOSE l \in Loads : l.limiter = "checkRL"

NextCheck ==
  \/ handleCheck /\ UNCHANGED << rlVars, hostVars, dVars, libVars >>
  \/ CheckReturn /\ UNCHANGED << rlVars, hostVars, dVars, libVars >>

InitHostAnyDisk ==
  /\ fs \in [Dests -> Contents \cup {Absent}]
  /\ unitFile = Absent
  /\ snap = [p \in Projects |-> NoSnapshot]
  /\ stored = [p \in Projects |-> {}]
  /\ owners = EmptyMap
  /\ installed = {}

InitSpecCheck ==
  InitRateIdle /\ InitCheck /\ InitHostAnyDisk /\ InitDaemon /\ wl = FilesWorkload
  /\ InitLibIdle

SpecCheck == InitSpecCheck /\ [][NextCheck]_vars

NextClient ==
  ClientDeploy /\ UNCHANGED << rlVars, chkVars, hostVars, dVars, authVars, svcVars, usrVars, arcVars >>

InitSpecClient ==
  InitRateIdle /\ InitCheck /\ InitHost /\ InitDaemon /\ wl = FilesWorkload /\ InitClient
  /\ InitAuthIdle /\ InitSvcIdle /\ InitUsersIdle /\ InitArchiveIdle

SpecClient == InitSpecClient /\ [][NextClient]_vars

NextAuth ==
  AuthServe /\ UNCHANGED << rlVars, chkVars, hostVars, dVars, cliVars, svcVars, usrVars, arcVars >>

InitSpecAuth ==
  InitRateIdle /\ InitCheck /\ InitHost /\ InitDaemon /\ wl = FilesWorkload
  /\ InitClientIdle /\ InitAuth /\ InitSvcIdle /\ InitUsersIdle /\ InitArchiveIdle

SpecAuth == InitSpecAuth /\ [][NextAuth]_vars

NextSvc ==
  \/ ServiceReconcile /\ UNCHANGED << rlVars, chkVars, hostVars, dVars, cliVars, authVars, usrVars, arcVars >>
  \/ ServiceDrift /\ UNCHANGED << rlVars, chkVars, hostVars, dVars, cliVars, authVars, usrVars, arcVars >>

InitSpecSvc ==
  InitRateIdle /\ InitCheck /\ InitHost /\ InitDaemon /\ wl = FilesWorkload
  /\ InitClientIdle /\ InitAuthIdle /\ InitSvc /\ InitUsersIdle /\ InitArchiveIdle

SpecSvc == InitSpecSvc /\ [][NextSvc]_vars

NextUsers ==
  \/ UsersReconcile /\ UNCHANGED << rlVars, chkVars, hostVars, dVars, cliVars, authVars, svcVars, arcVars >>
  \/ UsersRollback /\ UNCHANGED << rlVars, chkVars, hostVars, dVars, cliVars, authVars, svcVars, arcVars >>

InitSpecUsers ==
  InitRateIdle /\ InitCheck /\ InitHost /\ InitDaemon /\ wl = FilesWorkload
  /\ InitClientIdle /\ InitAuthIdle /\ InitSvcIdle /\ InitUsers /\ InitArchiveIdle

SpecUsers == InitSpecUsers /\ [][NextUsers]_vars

NextArchive ==
  \/ ExtractEntry /\ UNCHANGED << rlVars, chkVars, hostVars, dVars, cliVars, authVars, svcVars, usrVars >>
  \/ ExtractEOF /\ UNCHANGED << rlVars, chkVars, hostVars, dVars, cliVars, authVars, svcVars, usrVars >>

InitSpecArchive ==
  InitRateIdle /\ InitCheck /\ InitHost /\ InitDaemon /\ wl = FilesWorkload
  /\ InitClientIdle /\ InitAuthIdle /\ InitSvcIdle /\ InitUsersIdle /\ InitArchive

SpecArchive == InitSpecArchive /\ [][NextArchive]_vars

\* the client's Deploy returns with the end of the /deploy response: its check
\* result is used once, the next Deploy posts to /check again
DeployReturns(h) ==
  IF DeltaClient /\ req[h].route = "/deploy"
    THEN chkPc' = "idle" /\ chkReq' = << >> /\ chkUpload' = {}
    ELSE UNCHANGED chkVars

\* no /deploy request of the client is being served
NoDeployServed == \A h \in Handlers : req[h].route # "/deploy"

Next ==
  \/ (DeltaClient /\ NoDeployServed /\ handleCheck)
       /\ UNCHANGED << rlVars, hostVars, dVars, libVars >>
  \/ (DeltaClient /\ NoDeployServed /\ CheckReturn)
       /\ UNCHANGED << rlVars, hostVars, dVars, libVars >>
  \/ \E h \in Handlers : ClientGone(h) /\ UNCHANGED << rlVars, chkVars, libVars >>
  \/ \E h \in Handlers : handleDeployRejected(h) /\ UNCHANGED << rlVars, chkVars, libVars >>
  \/ \E h \in Handlers : handleDeployParseError(h) /\ UNCHANGED << rlVars, chkVars, libVars >>
  \/ \E h \in Handlers : handleDeployStart(h) /\ UNCHANGED << rlVars, chkVars, libVars >>
  \/ \E h \in Handlers : DeployInventory(h) /\ UNCHANGED << rlVars, chkVars, libVars >>
  \/ \E h \in Handlers : DeployBackup(h) /\ UNCHANGED << rlVars, chkVars, libVars >>
  \/ \E h \in Handlers : DeployPreHook(h) /\ UNCHANGED << rlVars, chkVars, libVars >>
  \/ \E h \in Handlers : DeployPlace(h) /\ UNCHANGED << rlVars, chkVars, libVars >>
  \/ \E h \in Handlers : DeployPlaceDone(h) /\ UNCHANGED << rlVars, chkVars, libVars >>
  \/ \E h \in Handlers : DeployUnit(h) /\ UNCHANGED << rlVars, chkVars, libVars >>
  \/ \E h \in Handlers : DeployPostHook(h) /\ UNCHANGED << rlVars, chkVars, libVars >>
  \/ \E h \in Handlers : DeployFinal(h) /\ UNCHANGED << rlVars, chkVars, libVars >>
  \/ \E h \in Handlers : handleRollbackRejected(h) /\ UNCHANGED << rlVars, chkVars, libVars >>
  \/ \E h \in Handlers : handleRollbackStart(h) /\ UNCHANGED << rlVars, chkVars, libVars >>
  \/ \E h \in Handlers : RollbackRun(h) /\ UNCHANGED << rlVars, chkVars, libVars >>
  \/ \E h \in Handlers : Return(h) /\ DeployReturns(h) /\ UNCHANGED << rlVars, libVars >>

Init ==
  InitRateIdle /\ InitCheck /\ InitHost /\ InitDaemon /\ wl \in Workloads /\ InitLibIdle

Spec == Init /\ [][Next]_vars

\* -------------------------------------------------------------------- claims

\* C3: for every source host, the requests handed to the next handler within a
\* rolling window of 60 seconds number at most 60 on /check and at most 10 on
\* /deploy and /rollback together; a request answered 429 is not handed on.
C3_RateLimitBound ==
  /\ \A p \in Pools, h \in Hosts : Len(passed[p][h]) <= PoolLimit(p)
  /\ rlLast.route \in Routes => ((rlLast.status = 429) <=> ~rlLast.forwarded)

\* C3 witness: time has passed, a host has used up the pool shared by /deploy
\* and /rollback, and its next /rollback was answered 429.
C3_Witness ==
  /\ rlLast.status = 429 /\ rlLast.route = "/rollback"
  /\ \E h \in Hosts : Len(passed["deploy"][h]) = DeployLimit
  /\ now > 0

\* C9 as claimed: the upload set is exactly the declared destinations that have
\* no readable file on the server or whose server fingerprint differs from the
\* client's.
C9_UploadSetExact ==
  chkPc = "done" =>
    chkUpload = { d \in { chkReq[i].dest : i \in 1..Len(chkReq) } :
                    \/ fs[d] = Absent
                    \/ HashFile(fs[d]) # clientHashesOf(chkReq)[d] }

\* C1: at any instant at most one /deploy or /rollback handler is past the
\* acquisition of the deployment lock, and a well-formed /deploy or /rollback
\* that arrives while the lock is held is answered 409 in the step of its
\* arrival, with no host state changed and the lock left with its holder.
C1_OneHandlerPastLock ==
  /\ [](/\ Cardinality({ h \in Handlers : locked[h] }) <= 1
        /\ \A h \in Handlers : pc[h] \notin { "idle", "ret" } => locked[h]
        /\ \A h \in Handlers : locked[h] => deployMu)
  /\ [][\A h \in Handlers :
          (/\ pc[h] = "idle" /\ pc'[h] # "idle"
           /\ \E g \in Handlers \ { h } : locked[g]
           /\ req'[h].method = "POST" /\ req'[h].body)
          => /\ resp'[h] = 409
             /\ pc'[h] = "ret"
             /\ ~locked'[h]
             /\ hostVars' = hostVars
             /\ deployMu' = deployMu]_vars

\* C1 witness: one handler is in the middle of its placement loop while a
\* /rollback that arrived meanwhile stands answered 409.
C1_Witness ==
  \E h, g \in Handlers :
    /\ h # g
    /\ locked[h] /\ pc[h] = "d_place" /\ idx[h] = 2
    /\ pc[g] = "ret" /\ resp[g] = 409 /\ req[g].route = "/rollback"

\* C2: the deployment lock is held exactly while some handler is between its
\* TryLock and its return, so it is free whenever no handler is running, and a
\* request is answered 409 only while another handler that took the lock is
\* still running.
C2_LockReleasedOnEveryExit ==
  /\ []((\A h \in Handlers : pc[h] = "idle") => ~deployMu)
  /\ [](deployMu <=> \E h \in Handlers : locked[h] /\ pc[h] # "idle")
  /\ [][\A h \in Handlers :
          (resp[h] # 409 /\ resp'[h] = 409)
          => \E g \in Handlers \ { h } : locked[g] /\ pc[g] # "idle"]_vars

\* C2 witness: a deployment that took its snapshot ended without completing
\* (an error exit), every handler has returned and the lock is free.
C2_Witness ==
  /\ \A h \in Handlers : pc[h] = "idle"
  /\ ~deployMu
  /\ \E p \in Projects : lastD[p].prior # "never" /\ ~lastD[p].ok

\* The owners registry agrees with the stored inventories.
RegistryConsistent ==
  /\ \A pkg \in Packages :
       MapGetSet(owners, pkg) = { p \in Projects : pkg \in stored[p] }
  /\ DOMAIN owners = UNION { stored[p] : p \in Projects }

\* C4 as claimed: when a deployment has completed, the owners registry holds
\* for every package exactly the projects whose stored inventory contains it,
\* and its keys are the union of the stored inventories, whatever deployments
\* came before, failed ones included.
C4_RegistryMatchesInventories ==
  \A h \in Handlers : DeployDone(h) => RegistryConsistent

\* C5 as claimed: the package manager's remove is not invoked for a package
\* during a deployment while another project's stored inventory contains it.
C5_NoRemovalWhileOwnedElsewhere ==
  \A h \in Handlers : \A pkg \in Packages :
    (\E i \in 1..Len(log[h]) : log[h][i] = "$ remove " \o pkg)
    => ~ \E q \in Projects \ { proj[h] } : pkg \in stored[q]

\* C6: when a rollback of a project completes and the project's latest
\* deployment D completed with its snapshot taken, and no deployment of the
\* project began after D, every declared destination that existed before D
\* has its pre-D content again and every declared destination D created is
\* gone.
C6_RollbackRoundTrip ==
  \A h \in Handlers :
    (RollbackDone(h) /\ lastD[proj[h]].ok /\ lastD[proj[h]].backupOk)
    => LET D == lastD[proj[h]]
           X == { d \in D.dests : D.pre[d] # Absent }
           Y == { d \in D.dests : D.pre[d] = Absent }
       IN  /\ \A d \in X : fs[d] = D.pre[d]
           /\ \A d \in Y : fs[d] = Absent

\* C6 witness: a rollback has completed after a successful deployment that
\* backed up one existing destination and created another.
C6_Witness ==
  \E h \in Handlers :
    /\ RollbackDone(h) /\ lastD[proj[h]].ok /\ lastD[proj[h]].backupOk
    /\ \E d \in lastD[proj[h]].dests : lastD[proj[h]].pre[d] # Absent /\ fs[d] # Absent
    /\ \E d \in lastD[proj[h]].dests : lastD[proj[h]].pre[d] = Absent /\ fs[d] = Absent

C8_RollbackConsumesSnapshot ==
  /\ [](\A h \in Handlers : RollbackDone(h) => ~RollbackAvailable(snap[proj[h]]))
  /\ [][\A h \in Handlers :
          (pc[h] = "rb_run" /\ pc'[h] # "rb_run" /\ ~RollbackAvailable(snap[proj[h]]))
          => /\ log'[h] = << "ERROR: no rollback snapshot available" >>
             /\ ~RollbackDone(h)'
             /\ fs' = fs /\ unitFile' = unitFile /\ snap' = snap]_vars

\* C8 witness: files are deployed, the project's snapshot has been consumed,
\* and a further rollback has been answered with the ERROR line.
C8_Witness ==
  \E h \in Handlers :
    /\ pc[h] = "ret" /\ req[h].route = "/rollback" /\ resp[h] = 200
    /\ log[h] = << "ERROR: no rollback snapshot available" >>
    /\ ~RollbackAvailable(snap[proj[h]])
    /\ wl.name = "files"
    /\ \E d \in Dests : fs[d] # Absent

\* The phases of a deployment in their order, and the phase that writes a line.
PhaseOrder == << "inventory", "snapshot", "pre-hook", "place", "systemd", "post-hook",
                 "final" >>
PhaseRank(p) == CHOOSE i \in 1..Len(PhaseOrder) : PhaseOrder[i] = p

InventoryLines ==
  { "Reconciling inventory...", "Installing packages", "$ install" }
  \cup { "Skipping removal of " \o pkg : pkg \in Packages }
  \cup { "Removing package: " \o pkg : pkg \in Packages }
  \cup { "$ remove " \o pkg : pkg \in Packages }
  \cup { "WARNING: could not remove " \o pkg : pkg \in Packages }
  \cup { "ERROR: inventory reconciliation: " \o e : e \in ReconcileErrors }
SnapshotLines == { "WARNING: backup failed (rollback unavailable)" }
PreHookLines == { "Running hook: pre", "ERROR: pre-hook" }
PlaceLines ==
  { "Skipping " \o d \o " (unchanged)" : d \in Dests }
  \cup { "Placed " \o d : d \in Dests }
  \cup { "ERROR: placing " \o d : d \in Dests }
SystemdLines == { "Placed unit", "systemctl daemon-reload", "systemctl enable",
                  "systemctl restart", "ERROR: systemd" }
PostHookLines == { "Running hook: post", "WARNING: post-hook failed" }
FinalLines == { "Deployment complete" }

\* the rank of the phase a streamed line belongs to (0: before the phases)
LineRank(line) ==
  CASE line \in InventoryLines -> PhaseRank("inventory")
    [] line \in SnapshotLines  -> PhaseRank("snapshot")
    [] line \in PreHookLines   -> PhaseRank("pre-hook")
    [] line \in PlaceLines     -> PhaseRank("place")
    [] line \in SystemdLines   -> PhaseRank("systemd")
    [] line \in PostHookLines  -> PhaseRank("post-hook")
    [] line \in FinalLines     -> PhaseRank("final")
    [] OTHER                   -> 0

Logged(h, line) == \E i \in 1..Len(log[h]) : log[h][i] = line

\* C11: when the server pre-hook has exited non-zero, the deployment places no
\* declared file, installs no unit, runs no post-hook and writes no success
\* line: the step that reports the failure ends the handler with files and
\* unit as they were, and none of those phases has run or runs afterwards.
C11_PreHookFailureAborts ==
  /\ [](\A h \in Handlers :
          Logged(h, "ERROR: pre-hook")
          => /\ pc[h] = "ret"
             /\ log[h][Len(log[h])] = "ERROR: pre-hook"
             /\ ~DeployDone(h)
             /\ Range(phases[h]) \cap { "place", "systemd", "post-hook", "final" } = {}
             /\ \A i \in 1..Len(log[h]) :
                  log[h][i] \notin PlaceLines \cup SystemdLines \cup PostHookLines
                                   \cup FinalLines)
  /\ [][\A h \in Handlers :
          (~Logged(h, "ERROR: pre-hook") /\ Logged(h, "ERROR: pre-hook")')
          => fs' = fs /\ unitFile' = unitFile]_vars

\* C11 witness: the pre-hook of a deployment that declares a file has failed
\* after the inventory and the snapshot ran; the file is not on the host.
C11_Witness ==
  \E h \in Handlers :
    /\ Logged(h, "ERROR: pre-hook")
    /\ destPaths[h] # << >>
    /\ phases[h] = << "inventory", "snapshot", "pre-hook" >>
    /\ \A d \in Range(destPaths[h]) : fs[d] = Absent

\* C12: a non-zero exit of the server post-hook does not fail the deployment:
\* the handler writes the WARNING line, no ERROR line, goes on to the terminal
\* line and ends with "Deployment complete".
C12_PostHookFailureIsWarning ==
  \A h \in Handlers :
    Logged(h, "WARNING: post-hook failed")
    => /\ pc[h] \in { "d_final", "ret" }
       /\ pc[h] = "ret" => DeployDone(h)
       /\ \A e \in { "ERROR: pre-hook", "ERROR: systemd" }
                    \cup { "ERROR: placing " \o d : d \in Dests } : ~Logged(h, e)

\* C12 witness: a deployment whose post-hook failed has ended with the success
\* line, after placing a file.
C12_Witness ==
  \E h \in Handlers :
    /\ Logged(h, "WARNING: post-hook failed")
    /\ DeployDone(h)
    /\ \E d \in Dests : Logged(h, "Placed " \o d)

\* every line the handlers write that starts with "ERROR:"
ErrorLines ==
  { "ERROR: " \o e : e \in ParseErrors }
  \cup { "ERROR: inventory reconciliation: " \o e : e \in ReconcileErrors }
  \cup { "ERROR: placing " \o d : d \in Dests }
  \cup { "ERROR: pre-hook", "ERROR: systemd", "ERROR: no rollback snapshot available",
         "ERROR: rollback failed" }

\* the handler has run to its end without a fatal error
CompletedOk(h) ==
  \/ req[h].route = "/deploy" /\ Len(phases[h]) > 0 /\ phases[h][Len(phases[h])] = "final"
  \/ RollbackDone(h)

\* C13 as claimed: a /deploy or /rollback response that was started with status
\* 200 ends with the sentinel line exactly when the operation completed without
\* a fatal error, and an aborted one holds an ERROR line and no sentinel.
C13_SentinelIffSuccess ==
  \A h \in Handlers :
    (pc[h] = "ret" /\ resp[h] = 200)
    => /\ (Len(log[h]) > 0 /\ log[h][Len(log[h])] = Sentinel) <=> CompletedOk(h)
       /\ ~CompletedOk(h) => /\ \E i \in 1..Len(log[h]) : log[h][i] \in ErrorLines
                              /\ ~Logged(h, Sentinel)

\* C14 as claimed: the stream reader reports success exactly when the last line
\* of the response body is the sentinel; a sentinel line followed by any further
\* line is no success, and a body that does not end with the sentinel is a
\* failure whatever the status was.
C14_SuccessIffLastLineSentinel ==
  cliPc = "done"
  => LET endsWithSentinel ==
           Len(cliStream) > 0 /\ cliStream[Len(cliStream)] = ClientSentinel
     IN  /\ cliStatus = 200 => (cliErr = "" <=> endsWithSentinel)
         /\ ~endsWithSentinel => cliErr # ""

\* the header is a scheme that reads "Bearer" in any case, one space, and the
\* configured token
WellFormedBearer ==
  \E w \in { "Bearer", "bearer", "BEARER" } : authHeader = << w, Space >> \o authToken

\* the middleware has answered or handed over
AuthServed == authStatus # 0 \/ authCalled

\* C15: the wrapped handler is invoked exactly when the Authorization header is
\* a case-insensitive "Bearer", one space and the configured token; in every
\* other case the answer is 401 and the handler is not invoked.
C15_HandlerIffBearerToken ==
  AuthServed
  => /\ authCalled <=> WellFormedBearer
     /\ ~WellFormedBearer => (authStatus = 401 /\ ~authCalled)
     /\ authCalled => authStatus = 0

\* a lower-case scheme with the configured token was handed to the handler
C15_Witness == authCalled /\ authHeader[1] = "bearer"

\* C16: after a call of reconcileServiceEnv that returns no error the drop-in
\* exists exactly when the env is not empty, and then holds the serialization of
\* the env; changed is reported exactly when the file was written or deleted;
\* and of two such calls in a row with the same non-empty env at most one writes
\* the file and at most one reports changed.
C16_EnvDropinIdempotent ==
  (svcN > 0 /\ svcLast.envErr = "")
  => /\ dropin # Absent <=> DOMAIN svcLast.env # {}
     /\ DOMAIN svcLast.env # {} => dropin = DropinContent(svcLast.env)
     /\ svcLast.changed <=> (svcLast.wrote \/ svcLast.removed)
     /\ (svcN > 1 /\ svcPrev.envErr = "" /\ svcPrev.env = svcLast.env
         /\ DOMAIN svcLast.env # {})
        => /\ ~(svcPrev.wrote /\ svcLast.wrote)
           /\ ~(svcPrev.changed /\ svcLast.changed)

\* the same two-key env was applied twice: the first call wrote the file over a
\* foreign one and reported changed, the second did neither
C16_Witness ==
  /\ svcN > 1 /\ svcPrev.envErr = "" /\ svcLast.envErr = ""
  /\ svcPrev.env = svcLast.env /\ DOMAIN svcLast.env = { "LOG", "PORT" }
  /\ svcPrev.wrote /\ svcPrev.changed /\ ~svcPrev.same
  /\ ~svcLast.wrote /\ ~svcLast.changed
  /\ dropin = "[Service]\nEnvironment=\"LOG=say \\\"hi\\\"\"\nEnvironment=\"PORT=8080\"\n"

\* C17 as claimed: for a service that is to be started and is already active, a
\* deployment restarts it exactly when it wrote or removed the env drop-in; a
\* deployment whose env is the one on disk neither rewrites the file nor
\* restarts or starts the service.
C17_RestartIffEnvChanged ==
  (svcN > 0 /\ svcLast.state = "started" /\ svcLast.wasActive)
  => /\ "restart" \in svcLast.cmds <=> (svcLast.wrote \/ svcLast.removed)
     /\ svcLast.same => /\ ~svcLast.wrote /\ ~svcLast.removed
                        /\ "restart" \notin svcLast.cmds
                        /\ "start" \notin svcLast.cmds

\* a deployment of the project has made its snapshot and then aborted
AbortedAfterSnapshot(p) == lastD[p].backupOk /\ ~lastD[p].ok

\* C18: once a /deploy handler has returned, after success or after any error,
\* the staging directory it created no longer exists: a staging directory
\* exists only while its handler is inside handleDeploy, and the step in which
\* a handler returns leaves none behind.
C18_StagingDirRemoved ==
  /\ [](\A h \in Handlers :
          tmpDir[h] = "exists" => (pc[h] # "idle" /\ req[h].route = "/deploy"))
  /\ [][\A h \in Handlers :
          (pc[h] = "ret" /\ pc'[h] = "idle" /\ tmpDir[h] = "exists")
          => tmpDir'[h] = "removed"]_vars

\* every handler has returned, one of them from a deployment that aborted after
\* its snapshot, and the staging directory it had created is removed
C18_Witness ==
  /\ \A h \in Handlers : pc[h] = "idle" /\ tmpDir[h] # "exists"
  /\ tmpDir["h1"] = "removed"
  /\ tmpDir["h2"] = "none"
  /\ AbortedAfterSnapshot("alpha")

\* the handler has written an inventory reconciliation error
InventoryFailed(h) ==
  \E e \in ReconcileErrors : Logged(h, "ERROR: inventory reconciliation: " \o e)

AbortedInPlacement(p) ==
  lastD[p].backupOk /\ lastD[p].abort \in { "place", "systemd" }

\* the snapshot of project p holds what deployment D found at its destinations
SnapshotHolds(p, D) ==
  /\ RollbackAvailable(snap[p])
  /\ \A d \in D.dests :
       IF D.pre[d] = Absent
         THEN d \in snap[p].newFiles
         ELSE \E r \in DOMAIN snap[p].files : DestOfRel(r) = d /\ snap[p].files[r] = D.pre[d]

\* C20: after a deployment that took its snapshot and aborted in the placement
\* loop or the unit installation, the snapshot stays available with the content
\* of before until a rollback uses it; and when a following rollback completes,
\* every declared destination that existed has the content it had before the
\* deployment and every declared destination that did not exist is gone.
C20_AbortKeepsSnapshotRollbackRestores ==
  /\ \A p \in Projects :
       (AbortedInPlacement(p) /\ ~\E h \in Handlers : proj[h] = p /\ RollbackDone(h))
       => SnapshotHolds(p, lastD[p])
  /\ \A h \in Handlers :
       (RollbackDone(h) /\ AbortedInPlacement(proj[h]))
       => \A d \in lastD[proj[h]].dests : fs[d] = lastD[proj[h]].pre[d]

\* a rollback has completed after a deployment that overwrote one destination,
\* left a torn new file at the other and aborted there: the first has its old
\* content again and the second is gone
C20_Witness ==
  \E h \in Handlers :
    /\ RollbackDone(h)
    /\ lastD[proj[h]].backupOk /\ lastD[proj[h]].abort = "place" /\ lastD[proj[h]].dirty
    /\ lastD[proj[h]].pre["/opt/app/bin"] \in Contents
    /\ fs["/opt/app/bin"] = lastD[proj[h]].pre["/opt/app/bin"]
    /\ lastD[proj[h]].pre["/opt/app/cfg"] = Absent
    /\ "/opt/app/cfg" \in lastD[proj[h]].dests
    /\ fs["/opt/app/cfg"] = Absent

\* the latest deployment of project p that reached BackupFiles got an error from it
SnapshotFailed(p) == lastD[p].prior # "never" /\ ~lastD[p].backupOk

\* C21 as claimed: a deployment whose snapshot fails goes on after the warning,
\* and a rollback of the project that follows it reports that no snapshot is
\* available and restores or removes nothing.
C21_FailedSnapshotNoRollback ==
  \A h \in Handlers :
    /\ (Len(log[h]) > 0
        /\ log[h][Len(log[h])] = "WARNING: backup failed (rollback unavailable)")
       => pc[h] # "ret"
    /\ (pc[h] = "ret" /\ req[h].route = "/rollback" /\ resp[h] = 200
        /\ SnapshotFailed(proj[h]))
       => log[h] = << "ERROR: no rollback snapshot available" >>

\* the handler has written the error of a failed package installation
InstallError(h) == Logged(h, "ERROR: inventory reconciliation: installing packages")

DeployAborted(h) ==
  /\ pc[h] = "ret" /\ req[h].route = "/deploy" /\ resp[h] = 200
  /\ proj[h] \in Projects /\ ~DeployDone(h)

C24_UsersNeverDeletedOrModified ==
  /\ [][\A n \in UserNames : hostUsers[n] # NoUser => hostUsers'[n] = hostUsers[n]]_vars
  /\ [](/\ \A i \in 1..Len(usrLast.cmds) :
              /\ usrLast.before[usrLast.cmds[i]] = NoUser
              /\ \A j \in 1..(i - 1) : usrLast.cmds[j] # usrLast.cmds[i]
        /\ \A i \in 1..Len(usrLast.users) :
              usrLast.before[usrLast.users[i].Name] # NoUser
                => \A c \in 1..Len(usrLast.cmds) : usrLast.cmds[c] # usrLast.users[i].Name
        /\ usrLast.kind = "rollback" => usrLast.cmds = << >>)

\* a deployment whose inventory names one user that exists and one that does
\* not, on a host with a third account state: the first was skipped, the
\* second created
C24_Witness ==
  /\ usrLast.kind = "deploy" /\ usrLast.err = ""
  /\ \E i, j \in 1..Len(usrLast.users) :
       /\ usrLast.before[usrLast.users[i].Name] # NoUser
       /\ usrLast.before[usrLast.users[j].Name] = NoUser
       /\ hostUsers[usrLast.users[j].Name] # NoUser
       /\ usrLast.cmds = << usrLast.users[j].Name >>

\* the location lies under the extraction root
UnderDestDir(loc) ==
  Len(loc) > Len(DestDir) /\ SubSeq(loc, 1, Len(DestDir)) = DestDir

C26_DisconnectedDeploymentCompletes ==
  \A h \in Handlers :
    (wl.name = "disconnect" /\ pc[h] = "ret" /\ req[h].route = "/deploy" /\ resp[h] = 200)
      => DeployDone(h) /\ ~Logged(h, "WARNING: post-hook failed")

\* the ParseErrors of a malformed request: the body is not multipart, the first
\* part is not the manifest, the manifest is not JSON, the second part is
\* missing or not the archive
MalformedErrors == { "reading multipart", "expected 'manifest' part", "parsing manifest",
                     "expected 'archive' part" }

\* C27 as claimed: a malformed /deploy request is answered with status 400 and
\* one with a wrong method with status 405.
C27_MalformedRequest400 ==
  \A h \in Handlers :
    (pc[h] = "ret" /\ req[h].route = "/deploy")
      => /\ req[h].method # "POST" => resp[h] = 405
         /\ (\E e \in MalformedErrors : Logged(h, "ERROR: " \o e)) => resp[h] = 400

\* C28 as claimed: the installed unit file is part of the snapshot: when a
\* rollback completes after a deployment that took its snapshot and wrote the
\* unit file, the unit file is as it was before that deployment.
C28_RollbackRestoresUnitFile ==
  \A h \in Handlers :
    (RollbackDone(h) /\ lastD[proj[h]].backupOk /\ lastD[proj[h]].unitPut)
      => unitFile = lastD[proj[h]].unitPre

\* C29 as claimed: in a deployment the server pre-hook runs before the
\* inventory reconciliation and before the backup of the existing files.
C29_PreHookBeforeInventoryAndBackup ==
  \A h \in Handlers :
    \A i, j \in 1..Len(phases[h]) :
      (phases[h][i] = "pre-hook" /\ phases[h][j] \in { "inventory", "snapshot" }) => i < j

\* C30 as claimed: a service of the inventory that does not exist on the host
\* never makes reconcileService fail: a warning is logged and none of
\* enable, disable, start, stop and restart is run for it.
C30_MissingServiceNonFatal ==
  svcLast.missing
    => /\ svcLast.err = ""
       /\ svcLast.warned
       /\ svcLast.cmds \cap { "enable", "disable", "start", "stop", "restart" } = {}

\* the service is on the host as svc asks: enabled or not, running or not, and
\* its drop-in with the content of svc.env (no drop-in for an empty env)
ServiceAsDesired(svc, file, enabled, active) ==
  /\ enabled = svc.enabled
  /\ active = (svc.state = "started")
  /\ file = (IF DOMAIN svc.env = {} THEN Absent ELSE DropinContent(svc.env))

\* reconcileService of a service that is as desired runs no command and writes
\* or removes no drop-in
ServicesActOnChanges ==
  \A svc \in Services, file \in { Absent, ForeignFile } \cup { DropinContent(e) : e \in Envs },
     enabled \in BOOLEAN, active \in BOOLEAN :
    ServiceAsDesired(svc, file, enabled, active)
      => LET r == reconcileService(svc, file, enabled, active, "none")
         IN  /\ r.err = "" /\ r.cmds = << >> /\ ~r.wrote /\ ~r.removed /\ ~r.changed
             /\ r.file = file /\ r.enabled = enabled /\ r.active = active

\* the users loop over users that all exist runs no command and changes nothing
UsersActOnChanges ==
  \A host \in [UserNames -> { NoUser } \cup Accounts], users \in UserLists :
    (\A i \in 1..Len(users) : Lookup(host, users[i].Name))
      => LET r == ensureUsers(host, users, 1, FALSE, << >>, << >>)
         IN  r.err = "" /\ r.cmds = << >> /\ r.host = host

\* the project owns every package of its stored inventory and they are installed
PackagesAsStored(p) ==
  /\ \A pkg \in stored[p] : p \in MapGetSet(owners, pkg)
  /\ stored[p] \subseteq installed

\* C31: a deployment whose inventory is the one last applied, on a host that is
\* in the desired state, runs Reconcile without an index refresh, a package
\* install or a removal and leaves the owners registry and the installed
\* packages as they are; a service that is as desired gets no systemctl command
\* and no drop-in write, and users that exist get no useradd.
C31_ReconcileActsOnlyOnChanges ==
  /\ [](ServicesActOnChanges /\ UsersActOnChanges)
  /\ [][\A h \in Handlers :
          (/\ pc[h] = "d_inv" /\ phases'[h] # phases[h] /\ pc'[h] # "ret"
           /\ stored'[proj[h]] = stored[proj[h]]
           /\ PackagesAsStored(proj[h]))
          => /\ log'[h] = log[h] \o << "Reconciling inventory..." >>
             /\ owners' = owners
             /\ installed' = installed]_vars

\* a project that has curl in its stored inventory has deployed the same
\* inventory again: Reconcile has run and has written its first line only
C31_Witness ==
  \E h \in Handlers :
    /\ pc[h] = "d_backup" /\ phases[h] = << "inventory" >>
    /\ log[h] = << "Starting deployment of " \o proj[h], "Reconciling inventory..." >>
    /\ stored[proj[h]] = { "curl" }
    /\ PackagesAsStored(proj[h])

\* the step of reconcileService a systemctl command belongs to
StepRank(c) ==
  CASE c = "daemon-reload" -> 1
    [] c \in { "enable", "disable" } -> 2
    [] OTHER -> 3

ServiceNames == { "web", "db" }
SomeServices == { svc \in Services : DOMAIN svc.env \in { {}, { "PORT" } } }
SomeHosts == [file : { Absent, ForeignFile }, enabled : BOOLEAN, active : BOOLEAN]
SomeFaults == { "none", "daemon-reload", "enable", "start" }

\* over two services: the commands come in the order of the list, each service
\* with all its commands before the next one's first, and a service that fails
\* ends the loop before the next one is touched
ServicesInManifestOrder ==
  \A first \in ServiceNames, s1 \in SomeServices, s2 \in SomeServices,
     h1 \in SomeHosts, h2 \in SomeHosts, f1 \in SomeFaults, f2 \in SomeFaults :
    LET second == CHOOSE n \in ServiceNames : n # first
        host   == [n \in ServiceNames |-> IF n = first THEN h1 ELSE h2]
        r == reconcileServices(<< [name |-> first, svc |-> s1], [name |-> second, svc |-> s2] >>,
                               1, host, [n \in ServiceNames |-> IF n = first THEN f1 ELSE f2],
                               << >>)
        one == reconcileService(s1, h1.file, h1.enabled, h1.active, f1)
    IN  /\ \A i, j \in 1..Len(r.cmds) :
             (r.cmds[i][1] = second /\ r.cmds[j][1] = first) => j < i
        /\ one.err # "" => (r.err # "" /\ r.host[second] = h2
                            /\ \A i \in 1..Len(r.cmds) : r.cmds[i][1] = first)

\* C32: in one call of reconcileService the commands come in the order
\* daemon-reload (drop-in), enable or disable, then start, stop or restart; a
\* start or restart is issued only with the drop-in at the content of the
\* service's env and, when the call wrote or removed the drop-in, after its
\* daemon-reload; Reconcile visits the services in the order of the list.
C32_ServiceStepOrder ==
  /\ \A i, j \in 1..Len(svcLast.seq) :
       i < j => StepRank(svcLast.seq[i]) < StepRank(svcLast.seq[j])
  /\ (\E i \in 1..Len(svcLast.seq) : svcLast.seq[i] \in { "start", "restart" })
       => /\ dropin = (IF DOMAIN svcLast.env = {} THEN Absent ELSE DropinContent(svcLast.env))
          /\ (svcLast.wrote \/ svcLast.removed) => svcLast.seq[1] = "daemon-reload"
  /\ ServicesInManifestOrder

\* a call has written the drop-in, reloaded, enabled the service and started it
C32_Witness ==
  /\ svcLast.wrote
  /\ svcLast.seq = << "daemon-reload", "enable", "start" >>

\* the handler has logged that the removal of pkg failed
RemovalWarned(h, pkg) == Logged(h, "WARNING: could not remove " \o pkg)

C34_OutputIsStreamWithoutFinalSentinel ==
  (cliPc = "done" /\ cliStatus = 200)
  => cliOut = (IF Len(cliStream) > 0 /\ cliStream[Len(cliStream)] = ClientSentinel
                 THEN SubSeq(cliStream, 1, Len(cliStream) - 1)
                 ELSE cliStream)

\* the systemctl lines of a handler's log, in order
SystemctlLines(h) ==
  SelectSeq(log[h], LAMBDA l : l \in { "systemctl daemon-reload", "systemctl enable",
                                       "systemctl restart" })

\* the handler's deployment has been through InstallUnit
UnitInstalled(h) ==
  /\ \E i \in 1..Len(phases[h]) : phases[h][i] = "systemd"
  /\ lastD[proj[h]].unit.present

\* C35: of a deployment that installs a unit, the systemctl commands are
\* daemon-reload, enable when requested and restart when requested, in this
\* order and up to the first that fails: nothing is run when the unit file
\* cannot be placed, nothing after a failed daemon-reload, no restart after a
\* failed enable; and a failure ends the deployment with the ERROR line.
C35_UnitStepsInOrderUntilFailure ==
  \A h \in Handlers :
    UnitInstalled(h)
    => LET u == lastD[proj[h]].unit
           reload  == << "systemctl daemon-reload" >>
           enable  == IF u.enable THEN << "systemctl enable" >> ELSE << >>
           restart == IF u.restart THEN << "systemctl restart" >> ELSE << >>
       IN  /\ SystemctlLines(h) =
                CASE u.fail = "place"         -> << >>
                  [] u.fail = "daemon-reload" -> reload
                  [] u.fail = "enable"        -> reload \o enable
                  [] OTHER                    -> reload \o enable \o restart
           /\ u.fail # "" => /\ pc[h] = "ret" /\ ~DeployDone(h)
                             /\ log[h][Len(log[h])] = "ERROR: systemd"

\* a deployment asked for enable and restart, its enable failed, and it has
\* ended after daemon-reload and enable
C35_Witness ==
  \E h \in Handlers :
    /\ UnitInstalled(h)
    /\ lastD[proj[h]].unit.fail = "enable" /\ lastD[proj[h]].unit.restart
    /\ SystemctlLines(h) = << "systemctl daemon-reload", "systemctl enable" >>
    /\ pc[h] = "ret"

\* C36 as claimed: when a deployment of the client has completed, every
\* destination of its manifest holds a file whose fingerprint is the one the
\* manifest gives for it, whatever happened between its /check and its /deploy.
C36_DeployedFingerprintsMatch ==
  \A h \in Handlers :
    (DeltaClient /\ DeployDone(h))
    => \A i \in 1..Len(chkReq) :
         /\ fs[chkReq[i].dest] # Absent
         /\ HashFile(fs[chkReq[i].dest]) = chkReq[i].hash

\* C37: a /rollback changes files only. The step in which handleRollback runs
\* leaves the stored inventory of every project, the package-owners registry,
\* the installed packages, the services with their drop-ins and the users as
\* they were.
C37_RollbackChangesFilesOnly ==
  [][\A h \in Handlers :
       (pc[h] = "rb_run" /\ pc'[h] = "ret")
       => /\ stored' = stored
          /\ owners' = owners
          /\ installed' = installed
          /\ UNCHANGED << svcVars, usrVars >>]_vars

\* a rollback has completed on a host where the deployment it undoes had
\* installed a package and stored the project's inventory
C37_Witness ==
  \E h \in Handlers :
    /\ RollbackDone(h)
    /\ stored[proj[h]] = Packages
    /\ installed = Packages
    /\ owners # EmptyMap
    /\ fs["/opt/app/bin"] = Absent

\* C38 as claimed: when the manifest of a deployment names a server pre-hook,
\* a declared file is placed only if that hook was executed (and, the
\* deployment having gone on, exited zero), also when the script is absent
\* from the staging tree.
C38_NoPlacementWithoutPreHook ==
  \A h \in Handlers :
    ( /\ locked[h] /\ req[h].route = "/deploy" /\ proj[h] \in Projects
      /\ lastD[proj[h]].preHook # "none"
      /\ \E i \in 1..Len(log[h]) : \E d \in Dests : log[h][i] = "Placed " \o d )
    => \E i \in 1..Len(log[h]) : log[h][i] = "Running hook: pre"

\* C39 as claimed: after a successful deployment whose inventory has the
\* service with state started, the service runs with the environment of its
\* current drop-in: it has been started or restarted since the drop-in was
\* last written or removed, also when that was done by an earlier call that
\* failed afterwards.
C39_StartedServiceHasCurrentEnv ==
  (svcN > 0 /\ svcLast.err = "" /\ svcLast.state = "started")
  => ~svcLast.stale

\* the case the claim singles out: the call before wrote the drop-in and then
\* failed, the latest call succeeded for the same env
C39_EarlierAbortCase ==
  /\ svcN > 1 /\ svcPrev.err # "" /\ svcPrev.wrote /\ svcPrev.wasActive
  /\ svcLast.err = "" /\ ~svcLast.warned /\ svcLast.state = "started"
  /\ svcLast.env = svcPrev.env /\ svcActive

\* C40 as claimed: when a project deploys with an inventory file that declares
\* no packages, services or users, then after the deployment the project owns
\* none of its former packages, no package without owner is installed, and the
\* project's stored package set is empty.
C40_EmptyInventoryReleasesPackages ==
  \A h \in Handlers :
    (DeltaClient /\ DeployDone(h) /\ lastD[proj[h]].invFile = InventoryOf({}))
    => /\ stored[proj[h]] = {}
       /\ \A pkg \in Packages : proj[h] \notin MapGetSet(owners, pkg)
       /\ \A pkg \in Packages : MapGetSet(owners, pkg) = {} => pkg \notin installed

====
